---- MODULE Spec2Model ----
(***************************************************************************)
(* Permission-override layer of the plugin host: the persisted override    *)
(* map ("alter_cmd"), the live handler registry with its filter objects,   *)
(* the applier, the reconciliation loop, and the two facades (the chat     *)
(* commands of PermissionManagerCommands and the PermissionService of the  *)
(* web API).                                                               *)
(***************************************************************************)
EXTENDS Integers, Sequences, FiniteSets, TLC

VARIABLES
    star_handlers_registry, \* the host's live handler list, in registration order
    star_map,               \* module path -> [name, activated] of the loaded plugins
    alter_cmd,              \* the persisted override map (sp key "alter_cmd")
    auto_apply_on_load,     \* Main.auto_apply_on_load (configuration)
    initialized,            \* Main.initialize has run
    mon_pc,                 \* position of the _monitor_and_apply_config task
    last_handler_signatures,\* its local of the same name
    current_handler_signatures, \* its local of the same name (kept over the awaits)
    since_full_apply,       \* real time elapsed since last_full_apply, capped
    tick_elapsed,           \* current_time - last_full_apply as read at the tick's start
    last,                   \* the operation performed by the last step and its reply
    calls,                  \* the web requests in flight: each one's position and locals
    overlapped,             \* history: a request began while another was in flight
    budget,                 \* disturbances still allowed (used by the fair specification)
    batch,                  \* the set_plugin_permission in flight: its position and locals
    webui                   \* the web server wrapper, its uvicorn task and the webui commands

vars == <<star_handlers_registry, star_map, alter_cmd, auto_apply_on_load,
          initialized, mon_pc, last_handler_signatures,
          current_handler_signatures, since_full_apply, tick_elapsed, last,
          calls, overlapped, budget, batch, webui>>

\* what the steps of the host, of the monitor and of the atomic operations leave alone
side == <<calls, overlapped, budget, batch, webui>>

monitor_vars == <<mon_pc, last_handler_signatures, current_handler_signatures,
                  since_full_apply, tick_elapsed>>

(***************************************************************************)
(* Bounds of the model.                                                    *)
(***************************************************************************)
MaxAliasLen == 2      \* longest alias list passed to an operation
MaxDisturb == 2       \* reloads, unloads and web requests of a behaviour of the fair specification
MaxRun == 3           \* longest run of consecutive calls on one handler that is counted
MaxServers == 3       \* web servers created in a behaviour

(***************************************************************************)
(* Program constants.                                                      *)
(***************************************************************************)
check_interval == 2
apply_interval == 30
grace_interval == 1
backoff_interval == 5

(***************************************************************************)
(* Python dictionaries: functions with a finite domain of strings.         *)
(***************************************************************************)
EmptyDict == <<>>

Get(d, k, default) == IF k \in DOMAIN d THEN d[k] ELSE default

Put(d, k, v) == (k :> v) @@ d

RECURSIVE SetToList(_)
SetToList(S) ==
    IF S = {} THEN <<>>
    ELSE LET x == CHOOSE y \in S : TRUE IN <<x>> \o SetToList(S \ {x})

Min(a, b) == IF a <= b THEN a ELSE b

(***************************************************************************)
(* Filter objects.  _cmpl_cmd_names is None (<<>>) or the cached value     *)
(* (<<S>>).                                                                *)
(***************************************************************************)
None == <<>>

CommandFilter(command_name, alias) ==
    [kind |-> "command", name |-> command_name, alias |-> alias,
     cmpl |-> None, ptype |-> ""]

CommandGroupFilter(group_name, alias) ==
    [kind |-> "command_group", name |-> group_name, alias |-> alias,
     cmpl |-> None, ptype |-> ""]

PermissionTypeFilter(permission_type) ==
    [kind |-> "permission", name |-> "", alias |-> {},
     cmpl |-> None, ptype |-> permission_type]

Handler(module, handler_name, event_filters) ==
    [module |-> module, handler_name |-> handler_name,
     event_filters |-> event_filters]

(***************************************************************************)
(* The plugins of the host.  m0 is a handler module with no entry in       *)
(* star_map; m1 (plugin p1) registers a command and a command group, m2    *)
(* (plugin p2) one command.  PluginSource(m) is what a (re)load of m       *)
(* registers: fresh handler objects carrying the defaults of the plugin's  *)
(* source.  mp is the module of this plugin itself (plugin perm): of its   *)
(* handlers the group perm and the subcommands list and set plugin are     *)
(* kept, with the filters their decorators register (the command filter of *)
(* the inner decorator first, the permission filter of the outer one       *)
(* after it; a group has no permission filter).                            *)
(***************************************************************************)
Modules == {"m1", "m2"}

OwnModule == "mp"

PluginNameOf(m) == IF m = "m1" THEN "p1" ELSE IF m = "m2" THEN "p2" ELSE "perm"

PluginSource(m) ==
    IF m = "m1" THEN
        << Handler("m1", "h1", <<CommandFilter("a", {})>>),
           Handler("m1", "h2", <<PermissionTypeFilter("admin"),
                                 CommandGroupFilter("b", {"x"})>>) >>
    ELSE IF m = "m2" THEN
        << Handler("m2", "h3", <<CommandFilter("a", {"y"}),
                                 PermissionTypeFilter("member")>>) >>
    ELSE IF m = OwnModule THEN
        << Handler(OwnModule, "perm", <<CommandGroupFilter("perm", {})>>),
           Handler(OwnModule, "perm_list", <<CommandFilter("list", {}),
                                             PermissionTypeFilter("admin")>>),
           Handler(OwnModule, "perm_set_plugin", <<CommandFilter("plugin", {}),
                                                   PermissionTypeFilter("admin")>>) >>
    ELSE
        << Handler("m0", "h0", <<CommandFilter("z", {})>>) >>

(***************************************************************************)
(* Scans of a handler's filter list (the "for event_filter in ...: if      *)
(* isinstance(...): ...; break" loops): index of the first filter of the   *)
(* kinds sought, 0 when there is none.                                     *)
(***************************************************************************)
FirstOfKinds(event_filters, kinds) ==
    LET hits == {i \in 1..Len(event_filters) : event_filters[i].kind \in kinds}
    IN IF hits = {} THEN 0 ELSE CHOOSE i \in hits : \A j \in hits : i <= j

FirstCommandFilter(event_filters) ==
    FirstOfKinds(event_filters, {"command", "command_group"})

\* a mutant: the scan for a permission filter finds none
FirstPermissionFilterBlind(event_filters) == 0

FirstPermissionFilter(event_filters) ==
    FirstOfKinds(event_filters, {"permission"})

NumPermissionFilters(event_filters) ==
    Cardinality({i \in 1..Len(event_filters) : event_filters[i].kind = "permission"})

(***************************************************************************)
(* In-place mutations of the live filters.                                 *)
(***************************************************************************)
\* a mutant: the name is written and the cache is left as it is
WriteFilterNameKeepCache(event_filters, new_name) ==
    LET i == FirstCommandFilter(event_filters)
    IN IF i = 0 THEN event_filters
       ELSE [event_filters EXCEPT ![i].name = new_name]

\* command_name / group_name := new_name; _cmpl_cmd_names := None
WriteFilterName(event_filters, new_name) ==
    LET i == FirstCommandFilter(event_filters)
    IN IF i = 0 THEN event_filters
       ELSE [event_filters EXCEPT ![i].name = new_name, ![i].cmpl = None]

\* a mutant: the aliases of the record are added to the live ones
WriteFilterAliasesMerge(event_filters, aliases) ==
    LET i == FirstCommandFilter(event_filters)
    IN IF i = 0 THEN event_filters
       ELSE [event_filters EXCEPT
                ![i].alias = @ \cup {aliases[k] : k \in 1..Len(aliases)},
                ![i].cmpl = None]

\* alias := set(aliases); _cmpl_cmd_names := None
WriteFilterAliases(event_filters, aliases) ==
    LET i == FirstCommandFilter(event_filters)
    IN IF i = 0 THEN event_filters
       ELSE [event_filters EXCEPT
                ![i].alias = {aliases[k] : k \in 1..Len(aliases)},
                ![i].cmpl = None]

PermissionTypeOf(permission) == IF permission = "admin" THEN "admin" ELSE "member"

\* a mutant: a permission filter is appended on every application
WritePermissionAlwaysAppend(event_filters, permission) ==
    Append(event_filters, PermissionTypeFilter(PermissionTypeOf(permission)))

\* a mutant: an existing permission filter is found but its tier is not overwritten
WritePermissionKeepTier(event_filters, permission) ==
    IF FirstPermissionFilter(event_filters) # 0 THEN event_filters
    ELSE Append(event_filters, PermissionTypeFilter(PermissionTypeOf(permission)))

\* overwrite the first permission filter, or append one when there is none
WritePermission(event_filters, permission) ==
    LET i == FirstPermissionFilter(event_filters)
    IN IF i # 0
       THEN [event_filters EXCEPT ![i].ptype = PermissionTypeOf(permission)]
       ELSE Append(event_filters, PermissionTypeFilter(PermissionTypeOf(permission)))

(***************************************************************************)
(* Main._apply_config_to_handlers: the applier.                            *)
(***************************************************************************)
\* a mutant: an alias override is applied only when it is a non-empty list
ApplyRecordSkipEmptyAliases(event_filters, cmd_cfg) ==
    LET f1 == IF "name" \in DOMAIN cmd_cfg
              THEN WriteFilterName(event_filters, cmd_cfg["name"])
              ELSE event_filters
        f2 == IF Get(cmd_cfg, "aliases", <<>>) # <<>>
              THEN WriteFilterAliases(f1, cmd_cfg["aliases"])
              ELSE f1
    IN IF "permission" \in DOMAIN cmd_cfg /\ cmd_cfg["permission"] \in {"admin", "member"}
       THEN WritePermission(f2, cmd_cfg["permission"])
       ELSE f2

ApplyRecord(event_filters, cmd_cfg) ==
    LET f1 == IF "name" \in DOMAIN cmd_cfg
              THEN WriteFilterName(event_filters, cmd_cfg["name"])
              ELSE event_filters
        f2 == IF "aliases" \in DOMAIN cmd_cfg
              THEN WriteFilterAliases(f1, cmd_cfg["aliases"])
              ELSE f1
        f3 == IF "permission" \in DOMAIN cmd_cfg
                 /\ cmd_cfg["permission"] \in {"admin", "member"}
              THEN WritePermission(f2, cmd_cfg["permission"])
              ELSE f2
    IN f3

\* a mutant: a handler's record is applied with an empty alias list where it
\* sets none
ApplyToHandlerAllFields(cfg, smap, handler) ==
    IF handler.module \notin DOMAIN smap THEN handler
    ELSE IF ~smap[handler.module].activated THEN handler
    ELSE LET plugin_cfg == Get(cfg, smap[handler.module].name, EmptyDict)
             cmd_cfg == Get(plugin_cfg, handler.handler_name, EmptyDict)
         IN IF DOMAIN cmd_cfg = {} THEN handler
            ELSE IF FirstCommandFilter(handler.event_filters) = 0 THEN handler
            ELSE [handler EXCEPT !.event_filters =
                     ApplyRecord(@, [aliases |-> <<>>] @@ cmd_cfg)]

ApplyToHandler(cfg, smap, handler) ==
    IF handler.module \notin DOMAIN smap THEN handler
    ELSE IF ~smap[handler.module].activated THEN handler
    ELSE LET plugin_cfg == Get(cfg, smap[handler.module].name, EmptyDict)
             cmd_cfg == Get(plugin_cfg, handler.handler_name, EmptyDict)
         IN IF DOMAIN cmd_cfg = {} THEN handler
            ELSE IF FirstCommandFilter(handler.event_filters) = 0 THEN handler
            ELSE [handler EXCEPT !.event_filters = ApplyRecord(@, cmd_cfg)]

ApplyConfigToHandlers(cfg, registry, smap) ==
    IF DOMAIN cfg = {} THEN registry
    ELSE [i \in DOMAIN registry |-> ApplyToHandler(cfg, smap, registry[i])]

(***************************************************************************)
(* _get_all_commands_by_plugin (both facades hold the same copy): the      *)
(* snapshot of the live registry.  An entry refers to the live handler     *)
(* object by its place idx in the registry.                                *)
(***************************************************************************)
Resolved(smap, handler) ==
    /\ handler.module \in DOMAIN smap
    /\ smap[handler.module].activated

RECURSIVE EntriesFrom(_, _, _, _)
EntriesFrom(registry, smap, plugin_name, i) ==
    IF i > Len(registry) THEN <<>>
    ELSE LET handler == registry[i]
             k == FirstCommandFilter(handler.event_filters)
             rest == EntriesFrom(registry, smap, plugin_name, i + 1)
         IN IF /\ Resolved(smap, handler)
               /\ smap[handler.module].name = plugin_name
               /\ k # 0
            THEN << [idx |-> i,
                     cmd_name |-> handler.event_filters[k].name,
                     cmd_type |-> handler.event_filters[k].kind,
                     is_group |-> handler.event_filters[k].kind = "command_group"] >>
                 \o rest
            ELSE rest

GetAllCommandsByPlugin(registry, smap) ==
    LET names == {smap[registry[i].module].name :
                     i \in {j \in 1..Len(registry) : Resolved(smap, registry[j])}}
    IN [p \in names |-> EntriesFrom(registry, smap, p, 1)]

\* the "{plugin.name}:{handler.handler_name}" signatures of the monitor
HandlerSignatures(registry, smap) ==
    { <<smap[registry[i].module].name, registry[i].handler_name>> :
         i \in {j \in 1..Len(registry) : Resolved(smap, registry[j])} }

(***************************************************************************)
(* The reply of the last step.                                             *)
(***************************************************************************)
NoCounts == <<>>

Blank ==
    [op |-> "", plugin |-> "", target |-> "", tier |-> "", name |-> "",
     aliases |-> <<>>, res |-> "", counts |-> NoCounts, hid |-> "", fixed |-> {},
     run |-> 0, zero |-> FALSE, was |-> {}, plugins |-> <<>>, is_list |-> TRUE,
     cached |-> {}, stale |-> FALSE]

HostStep(op, m) == [Blank EXCEPT !.op = op]

(***************************************************************************)
(* The host's plugin loader (outside this system's control): a reload is   *)
(* an Unload followed by a Load; plugins are switched off and on.          *)
(***************************************************************************)
KeepOthers(registry, m) ==
    SelectSeq(registry, LAMBDA h : h.module # m)

Unload(m) ==
    /\ m \in DOMAIN star_map
    /\ star_handlers_registry' = KeepOthers(star_handlers_registry, m)
    /\ star_map' = [x \in DOMAIN star_map \ {m} |-> star_map[x]]
    /\ last' = HostStep("unload", m)
    /\ UNCHANGED <<alter_cmd, auto_apply_on_load, initialized, monitor_vars>>

Load(m) ==
    /\ m \notin DOMAIN star_map
    /\ star_handlers_registry' = star_handlers_registry \o PluginSource(m)
    /\ star_map' = Put(star_map, m, [name |-> PluginNameOf(m), activated |-> TRUE])
    /\ last' = HostStep("load", m)
    /\ UNCHANGED <<alter_cmd, auto_apply_on_load, initialized, monitor_vars>>

Deactivate(m) ==
    /\ m \in DOMAIN star_map
    /\ star_map[m].activated
    /\ star_map' = [star_map EXCEPT ![m].activated = FALSE]
    /\ last' = HostStep("deactivate", m)
    /\ UNCHANGED <<star_handlers_registry, alter_cmd, auto_apply_on_load,
                   initialized, monitor_vars>>

Activate(m) ==
    /\ m \in DOMAIN star_map
    /\ ~star_map[m].activated
    /\ star_map' = [star_map EXCEPT ![m].activated = TRUE]
    /\ last' = HostStep("activate", m)
    /\ UNCHANGED <<star_handlers_registry, alter_cmd, auto_apply_on_load,
                   initialized, monitor_vars>>

\* get_complete_command_names of the host's filter: the names a message may
\* begin with, computed from the filter's name and alias set and kept in
\* _cmpl_cmd_names until that is set to None
CompleteNames(f) == <<f.name>> \o SetToList(f.alias)

\* the handlers whose command filter has a filled cache
Cached(registry) ==
    { registry[i].handler_name :
        i \in { j \in 1..Len(registry) :
                  /\ FirstCommandFilter(registry[j].event_filters) # 0
                  /\ registry[j].event_filters[
                        FirstCommandFilter(registry[j].event_filters)].cmpl # None } }

\* the host matches a message against the command filter of the handler at
\* place i and fills the filter's cache of complete command names
HostCaches(i) ==
    /\ i \in 1..Len(star_handlers_registry)
    /\ LET k == FirstCommandFilter(star_handlers_registry[i].event_filters)
       IN /\ k # 0
          /\ star_handlers_registry[i].event_filters[k].cmpl = None
          /\ star_handlers_registry' =
                [star_handlers_registry EXCEPT ![i].event_filters[k].cmpl =
                    CompleteNames(star_handlers_registry[i].event_filters[k])]
    /\ last' = HostStep("host_caches", star_handlers_registry[i].module)
    /\ UNCHANGED <<star_map, alter_cmd, auto_apply_on_load, initialized, monitor_vars>>

(***************************************************************************)
(* Main.initialize: the first apply, then the monitor task is created.     *)
(* last_full_apply starts at 0 and time.time() is the epoch time, so the   *)
(* first tick finds the periodic apply due.                                *)
(***************************************************************************)
ChangedBy(before, after) ==
    { before[i].handler_name : i \in {j \in DOMAIN before : before[j] # after[j]} }

Initialize ==
    /\ ~initialized
    /\ initialized' = TRUE
    /\ IF auto_apply_on_load
       THEN LET applied == ApplyConfigToHandlers(alter_cmd, star_handlers_registry, star_map)
            IN /\ star_handlers_registry' = applied
               /\ mon_pc' = "sleep"
               /\ last' = [Blank EXCEPT !.op = "initialize",
                              !.fixed = ChangedBy(star_handlers_registry, applied),
                              !.cached = Cached(star_handlers_registry)]
       ELSE /\ UNCHANGED <<star_handlers_registry, mon_pc>>
            /\ last' = [Blank EXCEPT !.op = "initialize"]
    /\ UNCHANGED <<star_map, alter_cmd, auto_apply_on_load, last_handler_signatures,
                   current_handler_signatures, since_full_apply, tick_elapsed>>

(***************************************************************************)
(* Main._monitor_and_apply_config: one tick is MonitorWake, then           *)
(* MonitorGraceDone when the signature set changed, then MonitorApply when *)
(* an apply is due.  Each action runs from one await to the next.          *)
(***************************************************************************)
\* a mutant: the periodic apply never falls due
PeriodicDueNever(elapsed) == FALSE

PeriodicDue(elapsed) == elapsed >= apply_interval

\* a mutant: a changed signature set is recorded without grace sleep and apply
MonitorWakePeriodicOnly ==
    /\ mon_pc = "sleep"
    /\ LET elapsed == Min(since_full_apply + check_interval, apply_interval)
           sigs == HandlerSignatures(star_handlers_registry, star_map)
       IN IF PeriodicDue(elapsed)
          THEN /\ mon_pc' = "apply"
               /\ current_handler_signatures' = sigs
               /\ since_full_apply' = 0
               /\ UNCHANGED <<tick_elapsed, last_handler_signatures>>
          ELSE /\ last_handler_signatures' = sigs
               /\ since_full_apply' = elapsed
               /\ UNCHANGED <<mon_pc, current_handler_signatures, tick_elapsed>>
    /\ last' = [Blank EXCEPT !.op = "wake"]
    /\ UNCHANGED <<star_handlers_registry, star_map, alter_cmd, auto_apply_on_load,
                   initialized>>

\* wakes from asyncio.sleep(check_interval)
MonitorWake ==
    /\ mon_pc = "sleep"
    /\ LET elapsed == Min(since_full_apply + check_interval, apply_interval)
           sigs == HandlerSignatures(star_handlers_registry, star_map)
       IN IF sigs # last_handler_signatures
          THEN \* churn: should_apply, then await asyncio.sleep(1)
               /\ mon_pc' = "grace"
               /\ current_handler_signatures' = sigs
               /\ tick_elapsed' = elapsed
               /\ since_full_apply' = elapsed
               /\ UNCHANGED last_handler_signatures
          ELSE IF PeriodicDue(elapsed)
          THEN \* last_full_apply = current_time, then await sp.global_get
               /\ mon_pc' = "apply"
               /\ current_handler_signatures' = sigs
               /\ since_full_apply' = 0
               /\ UNCHANGED <<tick_elapsed, last_handler_signatures>>
          ELSE /\ last_handler_signatures' = sigs
               /\ since_full_apply' = elapsed
               /\ UNCHANGED <<mon_pc, current_handler_signatures, tick_elapsed>>
    /\ last' = [Blank EXCEPT !.op = "wake"]
    /\ UNCHANGED <<star_handlers_registry, star_map, alter_cmd, auto_apply_on_load,
                   initialized>>

\* the grace sleep is over; the periodic test reads the tick's current_time
MonitorGraceDone ==
    /\ mon_pc = "grace"
    /\ mon_pc' = "apply"
    /\ since_full_apply' =
          IF PeriodicDue(tick_elapsed) THEN grace_interval
          ELSE Min(since_full_apply + grace_interval, apply_interval)
    /\ tick_elapsed' = 0
    /\ last' = [Blank EXCEPT !.op = "grace"]
    /\ UNCHANGED <<star_handlers_registry, star_map, alter_cmd, auto_apply_on_load,
                   initialized, last_handler_signatures, current_handler_signatures>>

\* a mutant: the apply writes back a map that keeps only the records of the
\* plugins it found loaded
MonitorApplyPrunes ==
    /\ mon_pc = "apply"
    /\ LET applied == ApplyConfigToHandlers(alter_cmd, star_handlers_registry, star_map)
           loaded == DOMAIN GetAllCommandsByPlugin(star_handlers_registry, star_map)
       IN /\ star_handlers_registry' = applied
          /\ alter_cmd' = [q \in DOMAIN alter_cmd \cap loaded |-> alter_cmd[q]]
          /\ last' = [Blank EXCEPT !.op = "apply",
                         !.fixed = ChangedBy(star_handlers_registry, applied),
                         !.cached = Cached(star_handlers_registry)]
    /\ mon_pc' = "sleep"
    /\ last_handler_signatures' = current_handler_signatures
    /\ current_handler_signatures' = {}
    /\ UNCHANGED <<star_map, auto_apply_on_load, initialized,
                   since_full_apply, tick_elapsed>>

\* sp.global_get has answered: the synchronous part of _apply_config_to_handlers
MonitorApply ==
    /\ mon_pc = "apply"
    /\ LET applied == ApplyConfigToHandlers(alter_cmd, star_handlers_registry, star_map)
       IN /\ star_handlers_registry' = applied
          /\ last' = [Blank EXCEPT !.op = "apply",
                         !.fixed = ChangedBy(star_handlers_registry, applied),
                         !.cached = Cached(star_handlers_registry)]
    /\ mon_pc' = "sleep"
    /\ last_handler_signatures' = current_handler_signatures
    /\ current_handler_signatures' = {}
    /\ UNCHANGED <<star_map, alter_cmd, auto_apply_on_load, initialized,
                   since_full_apply, tick_elapsed>>

(***************************************************************************)
(* PermissionService.get_plugin_commands: a query.                         *)
(***************************************************************************)
\* the "未设置" reply: neither an override nor a permission filter
PermUnset == "unset"

\* a mutant: the override is consulted only after the live permission filter
ReportedPermissionLiveFirst(cmd_cfg, event_filters) ==
    LET i == FirstPermissionFilter(event_filters)
    IN IF i # 0 THEN event_filters[i].ptype
       ELSE Get(cmd_cfg, "permission", PermUnset)

ReportedPermission(cmd_cfg, event_filters) ==
    LET current_perm == Get(cmd_cfg, "permission", PermUnset)
        i == FirstPermissionFilter(event_filters)
    IN IF current_perm # PermUnset THEN current_perm
       ELSE IF i = 0 THEN PermUnset
       ELSE IF event_filters[i].ptype = "admin" THEN "admin" ELSE "member"

LiveAliasList(event_filters) ==
    LET i == FirstCommandFilter(event_filters)
    IN IF i = 0 THEN <<>> ELSE SetToList(event_filters[i].alias)

\* a mutant: an empty alias override falls back to the live aliases, as the
\* chat listing (list_plugin_commands) does
ReportedAliasesIfNonEmpty(cmd_cfg, event_filters) ==
    IF Get(cmd_cfg, "aliases", <<>>) # <<>> THEN cmd_cfg["aliases"]
    ELSE LiveAliasList(event_filters)

ReportedAliases(cmd_cfg, event_filters) ==
    IF "aliases" \in DOMAIN cmd_cfg THEN cmd_cfg["aliases"]
    ELSE LiveAliasList(event_filters)

CommandInfo(plugin_cfg, registry, entry) ==
    LET handler == registry[entry.idx]
        cmd_cfg == Get(plugin_cfg, handler.handler_name, EmptyDict)
    IN [name |-> Get(cmd_cfg, "name", entry.cmd_name),
        original_name |-> entry.cmd_name,
        type |-> entry.cmd_type,
        handler |-> handler.handler_name,
        permission |-> ReportedPermission(cmd_cfg, handler.event_filters),
        aliases |-> ReportedAliases(cmd_cfg, handler.event_filters),
        is_group |-> entry.is_group]

GetPluginCommands(cfg, registry, smap, plugin_name) ==
    LET plugin_commands == GetAllCommandsByPlugin(registry, smap)
    IN IF plugin_name \notin DOMAIN plugin_commands
       THEN [found |-> FALSE, commands |-> <<>>, groups |-> <<>>]
       ELSE LET commands == plugin_commands[plugin_name]
                plugin_cfg == Get(cfg, plugin_name, EmptyDict)
                infos == [k \in DOMAIN commands |->
                             CommandInfo(plugin_cfg, registry, commands[k])]
            IN [found |-> TRUE,
                commands |-> SelectSeq(infos, LAMBDA info : ~info.is_group),
                groups |-> SelectSeq(infos, LAMBDA info : info.is_group)]

SvcGetPluginCommands(plugin_name) ==
    /\ initialized
    /\ LET reply == GetPluginCommands(alter_cmd, star_handlers_registry, star_map,
                                      plugin_name)
       IN last' = [Blank EXCEPT !.op = "get_plugin_commands", !.plugin = plugin_name,
                      !.res = IF reply.found THEN "ok" ELSE "NotFound"]
    /\ UNCHANGED <<star_handlers_registry, star_map, alter_cmd, auto_apply_on_load,
                   initialized, monitor_vars>>

(***************************************************************************)
(* The plugin lists.  plugin_commands is a dict: its items() come in the   *)
(* order the keys were inserted, which is the order in which the plugins'  *)
(* first resolved handlers stand in the registry.  get_all_plugins of the  *)
(* service walks items() as they come; list_plugins of the chat surface    *)
(* walks sorted(items()), the order of the names as strings.               *)
(***************************************************************************)
RECURSIVE PluginKeys(_, _, _)
PluginKeys(registry, smap, i) ==
    IF i = 0 THEN <<>>
    ELSE LET keys == PluginKeys(registry, smap, i - 1)
             handler == registry[i]
         IN IF ~Resolved(smap, handler) THEN keys
            ELSE LET plugin_name == smap[handler.module].name
                 IN IF \E k \in 1..Len(keys) : keys[k] = plugin_name THEN keys
                    ELSE Append(keys, plugin_name)

PluginSummary(plugin_name, commands) ==
    [name |-> plugin_name,
     command_count |-> Len(SelectSeq(commands, LAMBDA c : c.cmd_type = "command")),
     group_count |-> Len(SelectSeq(commands, LAMBDA c : c.is_group)),
     total_commands |-> Len(commands)]

\* PermissionService.get_all_plugins
GetAllPlugins(registry, smap) ==
    LET plugin_commands == GetAllCommandsByPlugin(registry, smap)
        keys == PluginKeys(registry, smap, Len(registry))
    IN [k \in 1..Len(keys) |-> PluginSummary(keys[k], plugin_commands[keys[k]])]

\* str < str on the plugin names of the host: "p1" < "p2" < "perm"
NameRank(plugin_name) ==
    IF plugin_name = "p1" THEN 1 ELSE IF plugin_name = "p2" THEN 2 ELSE 3

\* list_plugins of the chat surface: the lines of the message, in their order
ListPlugins(registry, smap) ==
    LET plugin_commands == GetAllCommandsByPlugin(registry, smap)
        keys == SortSeq(PluginKeys(registry, smap, Len(registry)),
                        LAMBDA a, b : NameRank(a) < NameRank(b))
    IN [k \in 1..Len(keys) |-> PluginSummary(keys[k], plugin_commands[keys[k]])]

SvcGetAllPlugins ==
    /\ initialized
    /\ last' = [Blank EXCEPT !.op = "svc_get_all_plugins", !.res = "ok",
                   !.plugins = GetAllPlugins(star_handlers_registry, star_map)]
    /\ UNCHANGED <<star_handlers_registry, star_map, alter_cmd, auto_apply_on_load,
                   initialized, monitor_vars>>

ChatListPlugins ==
    /\ initialized
    /\ LET reply == ListPlugins(star_handlers_registry, star_map)
       IN last' = [Blank EXCEPT !.op = "chat_list_plugins",
                      !.res = IF reply = <<>> THEN "Empty" ELSE "ok",
                      !.plugins = reply]
    /\ UNCHANGED <<star_handlers_registry, star_map, alter_cmd, auto_apply_on_load,
                   initialized, monitor_vars>>

(***************************************************************************)
(* What an operation leaves: the override map, the registry and the reply. *)
(* A reply carries counts only where the code returns them.                *)
(***************************************************************************)
Outcome(cfg, registry, res, counts, hid) ==
    [cfg |-> cfg, registry |-> registry, res |-> res, counts |-> counts, hid |-> hid]

Rejected(cfg, registry, res) == Outcome(cfg, registry, res, NoCounts, "")

\* a mutant: the leaf record is replaced by one that holds the new field only
PatchWholeRecord(cfg, plugin_name, handler_name, field, value) ==
    LET plugin_cfg == Get(cfg, plugin_name, EmptyDict)
    IN Put(cfg, plugin_name, Put(plugin_cfg, handler_name, field :> value))

\* alter_cmd_cfg = get(); cmd_cfg[field] = value; ...; put(alter_cmd_cfg)
Patch(cfg, plugin_name, handler_name, field, value) ==
    LET plugin_cfg == Get(cfg, plugin_name, EmptyDict)
        cmd_cfg == Get(plugin_cfg, handler_name, EmptyDict)
    IN Put(cfg, plugin_name,
           Put(plugin_cfg, handler_name, Put(cmd_cfg, field, value)))

\* the place in the registry of the first entry whose handler has this handler_name
FindByHandlerName(registry, entries, handler_name) ==
    LET hits == {k \in 1..Len(entries) :
                    registry[entries[k].idx].handler_name = handler_name}
    IN IF hits = {} THEN 0
       ELSE entries[CHOOSE k \in hits : \A j \in hits : k <= j].idx

\* the place in the registry of the first entry whose live name is command_name
FindByCommandName(entries, command_name) ==
    LET hits == {k \in 1..Len(entries) : entries[k].cmd_name = command_name}
    IN IF hits = {} THEN 0
       ELSE entries[CHOOSE k \in hits : \A j \in hits : k <= j].idx

ValidTier(permission) == permission \in {"admin", "member"}

(***************************************************************************)
(* PermissionService (manager/service.py), permissions.                    *)
(***************************************************************************)
\* a mutant: the tier is not validated
SvcSetCommandPermissionUnchecked(cfg, registry, smap, plugin_name, handler_name, permission) ==
    LET plugin_commands == GetAllCommandsByPlugin(registry, smap)
        i == FindByHandlerName(registry, Get(plugin_commands, plugin_name, <<>>),
                               handler_name)
    IN IF i = 0 THEN Rejected(cfg, registry, "NotFound")
       ELSE Outcome(Patch(cfg, plugin_name, handler_name, "permission", permission),
                    [registry EXCEPT ![i].event_filters = WritePermission(@, permission)],
                    "ok", NoCounts, handler_name)

SvcSetCommandPermissionOutcome(cfg, registry, smap, plugin_name, handler_name, permission) ==
    LET plugin_commands == GetAllCommandsByPlugin(registry, smap)
    IN IF plugin_name \notin DOMAIN plugin_commands
       THEN Rejected(cfg, registry, "NotFound")
       ELSE IF ~ValidTier(permission)
       THEN Rejected(cfg, registry, "InvalidArgument")
       ELSE LET i == FindByHandlerName(registry, plugin_commands[plugin_name],
                                       handler_name)
            IN IF i = 0 THEN Rejected(cfg, registry, "NoHandler")
               ELSE Outcome(
                      Patch(cfg, plugin_name, handler_name, "permission", permission),
                      [registry EXCEPT ![i].event_filters = WritePermission(@, permission)],
                      "ok", NoCounts, handler_name)

\* the loop of set_plugin_permission over the snapshot's entries, from entry k on
RECURSIVE SvcBatchLoop(_, _, _, _, _)
SvcBatchLoop(acc, registry, entries, permission, k) ==
    IF k > Len(entries) THEN [acc EXCEPT !.registry = registry]
    ELSE LET i == entries[k].idx
             handler_name == registry[i].handler_name
             cmd_cfg == Get(acc.plugin_cfg, handler_name, EmptyDict)
         IN SvcBatchLoop(
               [acc EXCEPT !.plugin_cfg = Put(@, handler_name,
                                              Put(cmd_cfg, "permission", permission)),
                           !.total_count = @ + 1,
                           !.success_count = @ + 1],
               [registry EXCEPT ![i].event_filters = WritePermission(@, permission)],
               entries, permission, k + 1)

\* a mutant: the loop handles the plain commands only and leaves the groups out
SvcBatchCommandsOnly(cfg, registry, entries, plugin_name, permission) ==
    LET done == SvcBatchLoop(
                   [plugin_cfg |-> Get(cfg, plugin_name, EmptyDict), registry |-> registry,
                    success_count |-> 0, total_count |-> 0],
                   registry, SelectSeq(entries, LAMBDA e : ~e.is_group), permission, 1)
    IN Outcome(Put(cfg, plugin_name, done.plugin_cfg), done.registry, "ok",
               <<done.success_count, done.total_count>>, "")

SvcBatch(cfg, registry, entries, plugin_name, permission) ==
    LET done == SvcBatchLoop(
                   [plugin_cfg |-> Get(cfg, plugin_name, EmptyDict), registry |-> registry,
                    success_count |-> 0, total_count |-> 0],
                   registry, entries, permission, 1)
    IN Outcome(Put(cfg, plugin_name, done.plugin_cfg), done.registry, "ok",
               <<done.success_count, done.total_count>>, "")

\* a mutant: the plugin is not looked up first; an unknown one has no entries
SvcSetPluginPermissionNoLookup(cfg, registry, smap, plugin_name, permission) ==
    IF ~ValidTier(permission) THEN Rejected(cfg, registry, "InvalidArgument")
    ELSE SvcBatch(cfg, registry,
                  Get(GetAllCommandsByPlugin(registry, smap), plugin_name, <<>>),
                  plugin_name, permission)

SvcSetPluginPermissionOutcome(cfg, registry, smap, plugin_name, permission) ==
    LET plugin_commands == GetAllCommandsByPlugin(registry, smap)
    IN IF plugin_name \notin DOMAIN plugin_commands
       THEN Rejected(cfg, registry, "NotFound")
       ELSE IF ~ValidTier(permission)
       THEN Rejected(cfg, registry, "InvalidArgument")
       ELSE SvcBatch(cfg, registry, plugin_commands[plugin_name], plugin_name, permission)

(***************************************************************************)
(* PermissionManagerCommands (main.py), permissions.                       *)
(***************************************************************************)
\* _set_command_permission; i = 0 stands for handler=None
ChatSetCommandPermission(cfg, registry, plugin_name, handler_name, permission, i) ==
    [cfg |-> Patch(cfg, plugin_name, handler_name, "permission", permission),
     registry |-> IF i = 0 THEN registry
                  ELSE [registry EXCEPT ![i].event_filters = WritePermission(@, permission)]]

\* the loop of _batch_set_plugin_permission, from entry k on (command_type=None)
RECURSIVE ChatBatchLoop(_, _, _, _, _)
ChatBatchLoop(acc, entries, plugin_name, permission, k) ==
    IF k > Len(entries) THEN acc
    ELSE LET i == entries[k].idx
             one == ChatSetCommandPermission(acc.cfg, acc.registry, plugin_name,
                                             acc.registry[i].handler_name, permission, i)
         IN ChatBatchLoop(
               [cfg |-> one.cfg, registry |-> one.registry,
                success_count |-> acc.success_count + 1,
                total_count |-> acc.total_count + 1],
               entries, plugin_name, permission, k + 1)

\* a mutant: the helper is called with command_type="command" and passes
\* over the groups
BatchSetPluginPermissionCommands(cfg, registry, smap, plugin_name, permission) ==
    LET plugin_commands == GetAllCommandsByPlugin(registry, smap)
    IN IF plugin_name \notin DOMAIN plugin_commands
       THEN Outcome(cfg, registry, "ok", <<0, 0>>, "")
       ELSE LET done == ChatBatchLoop(
                           [cfg |-> cfg, registry |-> registry,
                            success_count |-> 0, total_count |-> 0],
                           SelectSeq(plugin_commands[plugin_name],
                                     LAMBDA e : e.cmd_type = "command"),
                           plugin_name, permission, 1)
            IN Outcome(done.cfg, done.registry, "ok",
                       <<done.success_count, done.total_count>>, "")

\* _batch_set_plugin_permission
BatchSetPluginPermission(cfg, registry, smap, plugin_name, permission) ==
    LET plugin_commands == GetAllCommandsByPlugin(registry, smap)
    IN IF plugin_name \notin DOMAIN plugin_commands
       THEN Outcome(cfg, registry, "ok", <<0, 0>>, "")
       ELSE LET done == ChatBatchLoop(
                           [cfg |-> cfg, registry |-> registry,
                            success_count |-> 0, total_count |-> 0],
                           plugin_commands[plugin_name], plugin_name, permission, 1)
            IN Outcome(done.cfg, done.registry, "ok",
                       <<done.success_count, done.total_count>>, "")

\* batch_set_plugin: "/perm set plugin <name> <tier>"
ChatBatchSetPluginOutcome(cfg, registry, smap, plugin_name, permission) ==
    IF plugin_name = "" \/ permission = "" THEN Rejected(cfg, registry, "Usage")
    ELSE IF ~ValidTier(permission) THEN Rejected(cfg, registry, "InvalidArgument")
    ELSE IF plugin_name \notin DOMAIN GetAllCommandsByPlugin(registry, smap)
    THEN Rejected(cfg, registry, "NotFound")
    ELSE BatchSetPluginPermission(cfg, registry, smap, plugin_name, permission)

\* set_command: "/perm set command <name> <cmd> <tier>"
ChatSetCommandOutcome(cfg, registry, smap, plugin_name, command_name, permission) ==
    IF plugin_name = "" \/ command_name = "" \/ permission = ""
    THEN Rejected(cfg, registry, "Usage")
    ELSE IF ~ValidTier(permission) THEN Rejected(cfg, registry, "InvalidArgument")
    ELSE LET plugin_commands == GetAllCommandsByPlugin(registry, smap)
         IN IF plugin_name \notin DOMAIN plugin_commands
            THEN Rejected(cfg, registry, "NotFound")
            ELSE LET i == FindByCommandName(plugin_commands[plugin_name], command_name)
                 IN IF i = 0 THEN Rejected(cfg, registry, "NoCommand")
                    ELSE LET one == ChatSetCommandPermission(
                                       cfg, registry, plugin_name,
                                       registry[i].handler_name, permission, i)
                         IN Outcome(one.cfg, one.registry, "ok", NoCounts,
                                    registry[i].handler_name)

(***************************************************************************)
(* PermissionService (manager/service.py), names and aliases.              *)
(***************************************************************************)
SvcSetCommandNameOutcome(cfg, registry, smap, plugin_name, handler_name, new_name) ==
    LET plugin_commands == GetAllCommandsByPlugin(registry, smap)
    IN IF plugin_name \notin DOMAIN plugin_commands
       THEN Rejected(cfg, registry, "NotFound")
       ELSE LET i == FindByHandlerName(registry, plugin_commands[plugin_name],
                                       handler_name)
            IN IF i = 0 THEN Rejected(cfg, registry, "NoHandler")
               ELSE Outcome(
                      Patch(cfg, plugin_name, handler_name, "name", new_name),
                      [registry EXCEPT ![i].event_filters = WriteFilterName(@, new_name)],
                      "ok", NoCounts, handler_name)

SvcSetCommandAliasesOutcome(cfg, registry, smap, plugin_name, handler_name, aliases) ==
    LET plugin_commands == GetAllCommandsByPlugin(registry, smap)
    IN IF plugin_name \notin DOMAIN plugin_commands
       THEN Rejected(cfg, registry, "NotFound")
       ELSE LET i == FindByHandlerName(registry, plugin_commands[plugin_name],
                                       handler_name)
            IN IF i = 0 THEN Rejected(cfg, registry, "NoHandler")
               ELSE Outcome(
                      Patch(cfg, plugin_name, handler_name, "aliases", aliases),
                      [registry EXCEPT ![i].event_filters = WriteFilterAliases(@, aliases)],
                      "ok", NoCounts, handler_name)

(***************************************************************************)
(* PermissionManagerCommands (main.py), names and aliases.                 *)
(***************************************************************************)
\* _set_command_name; i = 0 stands for handler=None
ChatSetCommandNameHelper(cfg, registry, plugin_name, handler_name, new_name, i) ==
    [cfg |-> Patch(cfg, plugin_name, handler_name, "name", new_name),
     registry |-> IF i = 0 THEN registry
                  ELSE [registry EXCEPT ![i].event_filters = WriteFilterName(@, new_name)]]

\* _set_command_aliases; i = 0 stands for handler=None
ChatSetCommandAliasesHelper(cfg, registry, plugin_name, handler_name, aliases, i) ==
    [cfg |-> Patch(cfg, plugin_name, handler_name, "aliases", aliases),
     registry |-> IF i = 0 THEN registry
                  ELSE [registry EXCEPT ![i].event_filters = WriteFilterAliases(@, aliases)]]

\* _get_command_aliases
ChatGetCommandAliases(cfg, plugin_name, handler_name) ==
    Get(Get(Get(cfg, plugin_name, EmptyDict), handler_name, EmptyDict), "aliases", <<>>)

\* the alias set the chat commands fall back to: that of the first command or
\* group filter whose alias set is not empty
FallbackAliasSet(event_filters) ==
    LET hits == {k \in 1..Len(event_filters) :
                    /\ event_filters[k].kind \in {"command", "command_group"}
                    /\ event_filters[k].alias # {}}
    IN IF hits = {} THEN {}
       ELSE event_filters[CHOOSE k \in hits : \A j \in hits : k <= j].alias

\* the orders in which list(a_set) can enumerate a set
Listings(S) ==
    {s \in [1..Cardinality(S) -> S] : \A a, b \in DOMAIN s : s[a] = s[b] => a = b}

\* current_aliases of add_alias / remove_alias / list_aliases: the stored list,
\* or when that is empty listing, which is list(event_filter.alias)
CurrentAliases(cfg, plugin_name, handler_name, listing) ==
    LET stored == ChatGetCommandAliases(cfg, plugin_name, handler_name)
    IN IF stored # <<>> THEN stored ELSE listing

Contains(seq, x) == \E k \in 1..Len(seq) : seq[k] = x

\* list.remove(x): the first occurrence goes
RemoveFirst(seq, x) ==
    LET k == CHOOSE j \in 1..Len(seq) :
                 seq[j] = x /\ \A m \in 1..(j - 1) : seq[m] # x
    IN SubSeq(seq, 1, k - 1) \o SubSeq(seq, k + 1, Len(seq))

\* what every chat command that takes a command name does first: the usage
\* reply, the plugin, then the command by its live name; place = 0 when rejected.
\* argument is the command's last argument ("-" for list_aliases, which has none).
ChatLookup(registry, smap, plugin_name, command_name, argument) ==
    IF plugin_name = "" \/ command_name = "" \/ argument = ""
    THEN [res |-> "Usage", place |-> 0]
    ELSE LET plugin_commands == GetAllCommandsByPlugin(registry, smap)
         IN IF plugin_name \notin DOMAIN plugin_commands
            THEN [res |-> "NotFound", place |-> 0]
            ELSE LET i == FindByCommandName(plugin_commands[plugin_name], command_name)
                 IN IF i = 0 THEN [res |-> "NoCommand", place |-> 0]
                    ELSE [res |-> "ok", place |-> i]

\* a mutant: the new name is persisted and the live filter is left to the next apply
ChatSetCommandNameStoreOnly(cfg, registry, smap, plugin_name, command_name, new_name) ==
    LET found == ChatLookup(registry, smap, plugin_name, command_name, new_name)
        i == found.place
    IN IF i = 0 THEN Rejected(cfg, registry, found.res)
       ELSE Outcome(Patch(cfg, plugin_name, registry[i].handler_name, "name", new_name),
                    registry, "ok", NoCounts, registry[i].handler_name)

\* set_command_name: "/perm name set <plugin> <cmd> <new>"
ChatSetCommandNameOutcome(cfg, registry, smap, plugin_name, command_name, new_name) ==
    LET found == ChatLookup(registry, smap, plugin_name, command_name, new_name)
        i == found.place
    IN IF i = 0 THEN Rejected(cfg, registry, found.res)
       ELSE LET one == ChatSetCommandNameHelper(cfg, registry, plugin_name,
                                                registry[i].handler_name, new_name, i)
            IN Outcome(one.cfg, one.registry, "ok", NoCounts, registry[i].handler_name)

\* a mutant: the alias is appended without a look at the current list
ChatAddAliasNoCheck(cfg, registry, smap, plugin_name, command_name, alias, listing) ==
    LET found == ChatLookup(registry, smap, plugin_name, command_name, alias)
        i == found.place
    IN IF i = 0 THEN Rejected(cfg, registry, found.res)
       ELSE LET handler_name == registry[i].handler_name
                current_aliases == CurrentAliases(cfg, plugin_name, handler_name, listing)
                one == ChatSetCommandAliasesHelper(
                          cfg, registry, plugin_name, handler_name,
                          Append(current_aliases, alias), i)
            IN Outcome(one.cfg, one.registry, "ok", NoCounts, handler_name)

\* add_alias: "/perm alias add <plugin> <cmd> <alias>"
ChatAddAliasOutcome(cfg, registry, smap, plugin_name, command_name, alias, listing) ==
    LET found == ChatLookup(registry, smap, plugin_name, command_name, alias)
        i == found.place
    IN IF i = 0 THEN Rejected(cfg, registry, found.res)
       ELSE LET handler_name == registry[i].handler_name
                current_aliases == CurrentAliases(cfg, plugin_name, handler_name, listing)
            IN IF Contains(current_aliases, alias)
               THEN Outcome(cfg, registry, "Exists", NoCounts, handler_name)
               ELSE LET one == ChatSetCommandAliasesHelper(
                                  cfg, registry, plugin_name, handler_name,
                                  Append(current_aliases, alias), i)
                    IN Outcome(one.cfg, one.registry, "ok", NoCounts, handler_name)

\* remove_alias: "/perm alias remove <plugin> <cmd> <alias>"
ChatRemoveAliasOutcome(cfg, registry, smap, plugin_name, command_name, alias, listing) ==
    LET found == ChatLookup(registry, smap, plugin_name, command_name, alias)
        i == found.place
    IN IF i = 0 THEN Rejected(cfg, registry, found.res)
       ELSE LET handler_name == registry[i].handler_name
                current_aliases == CurrentAliases(cfg, plugin_name, handler_name, listing)
            IN IF ~Contains(current_aliases, alias)
               THEN Outcome(cfg, registry, "Absent", NoCounts, handler_name)
               ELSE LET one == ChatSetCommandAliasesHelper(
                                  cfg, registry, plugin_name, handler_name,
                                  RemoveFirst(current_aliases, alias), i)
                    IN Outcome(one.cfg, one.registry, "ok", NoCounts, handler_name)

\* list_aliases: "/perm alias list <plugin> <cmd>"; a query
ChatListAliasesOutcome(cfg, registry, smap, plugin_name, command_name) ==
    LET found == ChatLookup(registry, smap, plugin_name, command_name, "-")
        i == found.place
    IN IF i = 0 THEN Rejected(cfg, registry, found.res)
       ELSE Outcome(cfg, registry, "ok", NoCounts, registry[i].handler_name)

(***************************************************************************)
(* The web API (manager/server.py), permissions: the handler checks the    *)
(* tier of the request body, then calls the service.  "" stands for a body *)
(* without the key.                                                        *)
(***************************************************************************)
ApiSetPluginPermissionOutcome(cfg, registry, smap, plugin_name, permission) ==
    IF ~ValidTier(permission) THEN Rejected(cfg, registry, "InvalidArgument")
    ELSE SvcSetPluginPermissionOutcome(cfg, registry, smap, plugin_name, permission)

ApiSetCommandPermissionOutcome(cfg, registry, smap, plugin_name, handler_name, permission) ==
    IF ~ValidTier(permission) THEN Rejected(cfg, registry, "InvalidArgument")
    ELSE SvcSetCommandPermissionOutcome(cfg, registry, smap, plugin_name, handler_name,
                                        permission)

\* api_set_command_aliases.  body is the "aliases" value of the request: it is a
\* list of items or it is not (null, a string, a number); a body without the key
\* is the empty list.
ApiSetCommandAliasesOutcome(cfg, registry, smap, plugin_name, handler_name, body) ==
    IF ~body.is_list THEN Rejected(cfg, registry, "InvalidArgument")
    ELSE SvcSetCommandAliasesOutcome(cfg, registry, smap, plugin_name, handler_name,
                                     body.items)

(***************************************************************************)
(* The operations as steps.  A step runs the whole operation.              *)
(***************************************************************************)
ModuleOf(plugin_name) ==
    IF plugin_name = "p1" THEN "m1"
    ELSE IF plugin_name = PluginNameOf(OwnModule) THEN OwnModule
    ELSE "m2"

\* the place of handler_name of module m in the registry, 0 when it is not registered
PlaceOf(m, handler_name) ==
    LET hits == { i \in 1..Len(star_handlers_registry) :
                     /\ star_handlers_registry[i].module = m
                     /\ star_handlers_registry[i].handler_name = handler_name }
    IN IF hits = {} THEN 0 ELSE CHOOSE i \in hits : TRUE

\* History kept in last for the single-handler permission calls: run counts the
\* consecutive successful calls on the same handler, zero tells whether the
\* handler had no permission filter when the run began.
SetPermissionOps == {"svc_set_command_permission", "chat_set_command"}

Continues(plugin_name, out) ==
    /\ last.op \in SetPermissionOps /\ last.res = "ok"
    /\ last.plugin = plugin_name /\ last.hid = out.hid

RunOf(plugin_name, out) ==
    IF out.res # "ok" THEN 0
    ELSE IF Continues(plugin_name, out) THEN Min(last.run + 1, MaxRun)
    ELSE 1

ZeroOf(plugin_name, out) ==
    IF out.res # "ok" THEN FALSE
    ELSE IF Continues(plugin_name, out) THEN last.zero
    ELSE NumPermissionFilters(
            star_handlers_registry[PlaceOf(ModuleOf(plugin_name), out.hid)].event_filters) = 0

Performs(out, req) ==
    /\ initialized
    /\ alter_cmd' = out.cfg
    /\ star_handlers_registry' = out.registry
    /\ last' = [req EXCEPT !.res = out.res, !.counts = out.counts, !.hid = out.hid,
                           !.cached = Cached(star_handlers_registry)]
    /\ UNCHANGED <<star_map, auto_apply_on_load, initialized, monitor_vars>>

SvcSetCommandPermission(plugin_name, handler_name, permission) ==
    LET out == SvcSetCommandPermissionOutcome(alter_cmd, star_handlers_registry, star_map,
                                              plugin_name, handler_name, permission)
    IN Performs(out,
                [Blank EXCEPT !.op = "svc_set_command_permission", !.plugin = plugin_name,
                              !.target = handler_name, !.tier = permission,
                              !.run = RunOf(plugin_name, out),
                              !.zero = ZeroOf(plugin_name, out)])

SvcSetPluginPermission(plugin_name, permission) ==
    Performs(SvcSetPluginPermissionOutcome(alter_cmd, star_handlers_registry, star_map,
                                           plugin_name, permission),
             [Blank EXCEPT !.op = "svc_set_plugin_permission", !.plugin = plugin_name,
                           !.tier = permission])

ChatSetCommand(plugin_name, command_name, permission) ==
    LET out == ChatSetCommandOutcome(alter_cmd, star_handlers_registry, star_map,
                                     plugin_name, command_name, permission)
    IN Performs(out,
                [Blank EXCEPT !.op = "chat_set_command", !.plugin = plugin_name,
                              !.target = command_name, !.tier = permission,
                              !.run = RunOf(plugin_name, out),
                              !.zero = ZeroOf(plugin_name, out)])

ChatBatchSetPlugin(plugin_name, permission) ==
    Performs(ChatBatchSetPluginOutcome(alter_cmd, star_handlers_registry, star_map,
                                       plugin_name, permission),
             [Blank EXCEPT !.op = "chat_batch_set_plugin", !.plugin = plugin_name,
                           !.tier = permission])

ApiSetPluginPermission(plugin_name, permission) ==
    Performs(ApiSetPluginPermissionOutcome(alter_cmd, star_handlers_registry, star_map,
                                           plugin_name, permission),
             [Blank EXCEPT !.op = "api_set_plugin_permission", !.plugin = plugin_name,
                           !.tier = permission])

ApiSetCommandPermission(plugin_name, handler_name, permission) ==
    Performs(ApiSetCommandPermissionOutcome(alter_cmd, star_handlers_registry, star_map,
                                            plugin_name, handler_name, permission),
             [Blank EXCEPT !.op = "api_set_command_permission", !.plugin = plugin_name,
                           !.target = handler_name, !.tier = permission])

\* a direct call of the helper _batch_set_plugin_permission
ChatBatchHelper(plugin_name, permission) ==
    Performs(BatchSetPluginPermission(alter_cmd, star_handlers_registry, star_map,
                                      plugin_name, permission),
             [Blank EXCEPT !.op = "batch_set_plugin_permission", !.plugin = plugin_name,
                           !.tier = permission])

SvcSetCommandName(plugin_name, handler_name, new_name) ==
    Performs(SvcSetCommandNameOutcome(alter_cmd, star_handlers_registry, star_map,
                                      plugin_name, handler_name, new_name),
             [Blank EXCEPT !.op = "svc_set_command_name", !.plugin = plugin_name,
                           !.target = handler_name, !.name = new_name])

SvcSetCommandAliases(plugin_name, handler_name, aliases) ==
    Performs(SvcSetCommandAliasesOutcome(alter_cmd, star_handlers_registry, star_map,
                                         plugin_name, handler_name, aliases),
             [Blank EXCEPT !.op = "svc_set_command_aliases", !.plugin = plugin_name,
                           !.target = handler_name, !.aliases = aliases])

ApiSetCommandAliases(plugin_name, handler_name, body) ==
    Performs(ApiSetCommandAliasesOutcome(alter_cmd, star_handlers_registry, star_map,
                                         plugin_name, handler_name, body),
             [Blank EXCEPT !.op = "api_set_command_aliases", !.plugin = plugin_name,
                           !.target = handler_name, !.aliases = body.items,
                           !.is_list = body.is_list])

ChatSetCommandName(plugin_name, command_name, new_name) ==
    Performs(ChatSetCommandNameOutcome(alter_cmd, star_handlers_registry, star_map,
                                       plugin_name, command_name, new_name),
             [Blank EXCEPT !.op = "chat_set_command_name", !.plugin = plugin_name,
                           !.target = command_name, !.name = new_name])

\* the orders list(event_filter.alias) can give for the command a chat command finds
ListingsFor(plugin_name, command_name) ==
    LET found == ChatLookup(star_handlers_registry, star_map, plugin_name,
                            command_name, "-")
    IN IF found.place = 0 THEN {<<>>}
       ELSE Listings(FallbackAliasSet(star_handlers_registry[found.place].event_filters))

\* History kept in last for alias add and alias remove: aliases is the command's
\* current_aliases and was its live alias set, both as the command found them;
\* run = 1 marks a remove that directly follows the successful add of the same
\* alias to the same handler, and was is then the live alias set that add found.
AliasesBefore(plugin_name, command_name, listing) ==
    LET found == ChatLookup(star_handlers_registry, star_map, plugin_name,
                            command_name, "-")
    IN IF found.place = 0 THEN [aliases |-> <<>>, was |-> {}]
       ELSE LET handler == star_handlers_registry[found.place]
            IN [aliases |-> CurrentAliases(alter_cmd, plugin_name,
                                           handler.handler_name, listing),
                was |-> handler.event_filters[
                           FirstCommandFilter(handler.event_filters)].alias]

ChatAddAlias(plugin_name, command_name, alias) ==
    \E listing \in ListingsFor(plugin_name, command_name) :
        LET before == AliasesBefore(plugin_name, command_name, listing)
        IN Performs(ChatAddAliasOutcome(alter_cmd, star_handlers_registry, star_map,
                                        plugin_name, command_name, alias, listing),
                    [Blank EXCEPT !.op = "chat_add_alias", !.plugin = plugin_name,
                                  !.target = command_name, !.name = alias,
                                  !.aliases = before.aliases, !.was = before.was])

ChatRemoveAlias(plugin_name, command_name, alias) ==
    \E listing \in ListingsFor(plugin_name, command_name) :
        LET before == AliasesBefore(plugin_name, command_name, listing)
            out == ChatRemoveAliasOutcome(alter_cmd, star_handlers_registry, star_map,
                                          plugin_name, command_name, alias, listing)
            follows == /\ last.op = "chat_add_alias"
                       /\ last.res = "ok" /\ out.res = "ok"
                       /\ last.plugin = plugin_name
                       /\ last.hid = out.hid
                       /\ last.name = alias
        IN Performs(out,
                    [Blank EXCEPT !.op = "chat_remove_alias", !.plugin = plugin_name,
                                  !.target = command_name, !.name = alias,
                                  !.aliases = before.aliases,
                                  !.was = IF follows THEN last.was ELSE before.was,
                                  !.run = IF follows THEN 1 ELSE 0])

ChatListAliases(plugin_name, command_name) ==
    Performs(ChatListAliasesOutcome(alter_cmd, star_handlers_registry, star_map,
                                    plugin_name, command_name),
             [Blank EXCEPT !.op = "chat_list_aliases", !.plugin = plugin_name,
                           !.target = command_name])

(***************************************************************************)
(* Web requests in flight.  PermissionService.set_command_permission and   *)
(* set_command_name run from one await to the next: CallBegin runs the     *)
(* checks up to "await sp.global_get"; CallGot takes the answer, patches   *)
(* it and runs up to "await sp.global_put"; CallPut has the map written    *)
(* and updates the live filter of the handler object found at the          *)
(* beginning.  The store hands out and takes values, not shared objects.   *)
(***************************************************************************)
Callers == {"w1", "w2"}

Idle ==
    [pc |-> "idle", plugin |-> "", handler_name |-> "", field |-> "", value |-> "",
     attached |-> FALSE, cfg |-> EmptyDict]

\* the verdict of the checks that precede the first await
CallChecks(field, plugin_name, handler_name, value) ==
    IF field = "permission"
    THEN SvcSetCommandPermissionOutcome(alter_cmd, star_handlers_registry, star_map,
                                        plugin_name, handler_name, value).res
    ELSE SvcSetCommandNameOutcome(alter_cmd, star_handlers_registry, star_map,
                                  plugin_name, handler_name, value).res

CallBegin(c, field, plugin_name, handler_name, value) ==
    /\ initialized
    /\ calls[c].pc = "idle"
    /\ LET res == CallChecks(field, plugin_name, handler_name, value)
       IN /\ calls' = IF res # "ok" THEN calls
                      ELSE [calls EXCEPT ![c] =
                               [pc |-> "get", plugin |-> plugin_name,
                                handler_name |-> handler_name, field |-> field,
                                value |-> value, attached |-> TRUE, cfg |-> EmptyDict]]
          /\ overlapped' = (overlapped \/
                              (res = "ok" /\ \E d \in Callers \ {c} : calls[d].pc # "idle"))
          /\ last' = [Blank EXCEPT !.op = "call_begin", !.plugin = plugin_name,
                         !.target = handler_name,
                         !.res = IF res = "ok" THEN "pending" ELSE res]
    /\ UNCHANGED <<star_handlers_registry, star_map, alter_cmd, auto_apply_on_load,
                   initialized, monitor_vars>>

\* sp.global_get has answered
CallGot(c) ==
    /\ calls[c].pc = "get"
    /\ calls' = [calls EXCEPT ![c].pc = "put",
                              ![c].cfg = Patch(alter_cmd, calls[c].plugin,
                                               calls[c].handler_name, calls[c].field,
                                               calls[c].value)]
    /\ last' = [Blank EXCEPT !.op = "call_got", !.plugin = calls[c].plugin]
    /\ UNCHANGED <<star_handlers_registry, star_map, alter_cmd, auto_apply_on_load,
                   initialized, monitor_vars, overlapped>>

\* the live filter after the call's update
CallWrite(event_filters, field, value) ==
    IF field = "permission" THEN WritePermission(event_filters, value)
    ELSE WriteFilterName(event_filters, value)

\* sp.global_put has answered: the store is written and the filters of the
\* handler object found before the awaits are updated, whether or not that
\* object is still in the registry (stale tells that it is not)
CallPut(c) ==
    /\ calls[c].pc = "put"
    /\ alter_cmd' = calls[c].cfg
    /\ LET i == PlaceOf(ModuleOf(calls[c].plugin), calls[c].handler_name)
       IN star_handlers_registry' =
             IF calls[c].attached /\ i # 0
             THEN [star_handlers_registry EXCEPT
                      ![i].event_filters = CallWrite(@, calls[c].field, calls[c].value)]
             ELSE star_handlers_registry
    /\ calls' = [calls EXCEPT ![c] = Idle]
    /\ last' = [Blank EXCEPT !.op = "call_put", !.plugin = calls[c].plugin,
                   !.res = "ok", !.hid = calls[c].handler_name,
                   !.stale = ~calls[c].attached]
    /\ UNCHANGED <<star_map, auto_apply_on_load, initialized, monitor_vars, overlapped>>

\* an unload takes the handler objects of m out of the registry: a request in
\* flight keeps its reference to the object it found, which is live no longer
Detached(m) ==
    [c \in Callers |->
        IF calls[c].pc # "idle" /\ ModuleOf(calls[c].plugin) = m
        THEN [calls[c] EXCEPT !.attached = FALSE]
        ELSE calls[c]]

(***************************************************************************)
(* set_plugin_permission in flight, of both facades, from one await to the *)
(* next.  The service (kind "svc") takes the snapshot, awaits one          *)
(* sp.global_get, runs its whole loop (records patched in its copy of the  *)
(* map, live filters updated), then awaits one sp.global_put.  The chat    *)
(* command (kind "chat") takes the snapshot and calls                      *)
(* _set_command_permission for one entry after the other, each with its    *)
(* own sp.global_get and sp.global_put and the live update after the put.  *)
(* entries holds the snapshot: the handler objects by their places (the    *)
(* loader only switches plugins off and on while a batch is in flight).    *)
(***************************************************************************)
BatchIdle ==
    [pc |-> "idle", kind |-> "", plugin |-> "", permission |-> "", entries |-> <<>>,
     k |-> 0, cfg |-> EmptyDict, before |-> EmptyDict, writes |-> 0]

\* the verdict of the checks that precede the first await
BatchChecks(kind, plugin_name, permission) ==
    IF kind = "svc"
    THEN SvcSetPluginPermissionOutcome(alter_cmd, star_handlers_registry, star_map,
                                       plugin_name, permission).res
    ELSE ChatBatchSetPluginOutcome(alter_cmd, star_handlers_registry, star_map,
                                   plugin_name, permission).res

BatchBegin(kind, plugin_name, permission) ==
    /\ initialized
    /\ batch.pc = "idle"
    /\ LET res == BatchChecks(kind, plugin_name, permission)
           entries == Get(GetAllCommandsByPlugin(star_handlers_registry, star_map),
                          plugin_name, <<>>)
       IN /\ batch' = IF res # "ok" \/ entries = <<>> THEN BatchIdle
                      ELSE [pc |-> "get", kind |-> kind, plugin |-> plugin_name,
                            permission |-> permission, entries |-> entries, k |-> 1,
                            cfg |-> EmptyDict, before |-> alter_cmd, writes |-> 0]
          /\ last' = [Blank EXCEPT !.op = "batch_begin", !.plugin = plugin_name,
                         !.tier = permission,
                         !.res = IF res = "ok" /\ entries # <<>> THEN "pending" ELSE res]
    /\ UNCHANGED <<star_handlers_registry, star_map, alter_cmd, auto_apply_on_load,
                   initialized, monitor_vars, calls, overlapped, budget>>

\* sp.global_get has answered
BatchGot ==
    /\ batch.pc = "get"
    /\ IF batch.kind = "svc"
       THEN LET out == SvcBatch(alter_cmd, star_handlers_registry, batch.entries,
                                batch.plugin, batch.permission)
            IN /\ star_handlers_registry' = out.registry
               /\ batch' = [batch EXCEPT !.pc = "put", !.cfg = out.cfg]
       ELSE /\ batch' = [batch EXCEPT
                            !.pc = "put",
                            !.cfg = Patch(alter_cmd, batch.plugin,
                                          star_handlers_registry[batch.entries[batch.k].idx]
                                             .handler_name,
                                          "permission", batch.permission)]
            /\ UNCHANGED star_handlers_registry
    /\ last' = [Blank EXCEPT !.op = "batch_got", !.plugin = batch.plugin,
                   !.tier = batch.permission]
    /\ UNCHANGED <<star_map, alter_cmd, auto_apply_on_load, initialized, monitor_vars,
                   calls, overlapped, budget>>

\* sp.global_put has answered
BatchPut ==
    /\ batch.pc = "put"
    /\ alter_cmd' = batch.cfg
    /\ IF batch.kind = "svc"
       THEN /\ batch' = [BatchIdle EXCEPT !.writes = batch.writes + 1]
            /\ last' = [Blank EXCEPT !.op = "batch_put", !.plugin = batch.plugin,
                           !.tier = batch.permission, !.res = "ok",
                           !.counts = <<Len(batch.entries), Len(batch.entries)>>]
            /\ UNCHANGED star_handlers_registry
       ELSE LET i == batch.entries[batch.k].idx
                more == batch.k < Len(batch.entries)
            IN /\ star_handlers_registry' =
                     [star_handlers_registry EXCEPT
                         ![i].event_filters = WritePermission(@, batch.permission)]
               /\ batch' = IF more
                           THEN [batch EXCEPT !.pc = "get", !.k = @ + 1,
                                              !.writes = @ + 1]
                           ELSE [BatchIdle EXCEPT !.writes = batch.writes + 1]
               /\ last' = [Blank EXCEPT
                              !.op = "batch_put", !.plugin = batch.plugin,
                              !.tier = batch.permission,
                              !.res = IF more THEN "pending" ELSE "ok",
                              !.counts = IF more THEN NoCounts
                                         ELSE <<Len(batch.entries), Len(batch.entries)>>]
    /\ UNCHANGED <<star_map, auto_apply_on_load, initialized, monitor_vars,
                   calls, overlapped, budget>>

(***************************************************************************)
(* The web server (webui/server.py) and the commands "/perm webui start"   *)
(* and "/perm webui stop" of main.py, from one await to the next.  servers *)
(* are the uvicorn servers created so far, each with the state of its task *)
(* ("alive", "done" when serve() has returned, "failed" when it has        *)
(* raised) and its flags started and should_exit; task and server are      *)
(* WebUIServer._server_task and _server, as places in servers (0 is None). *)
(* start_pc and stop_pc are the positions of the command in flight, polls  *)
(* counts the sleeps of the start loop that are over, awaited is the task  *)
(* stop() awaits.  port_taken says that another process holds the port.    *)
(* auto is the task initialize() creates for _auto_start_webui ("none",    *)
(* "pending" until its first step, then "over"); closing says that the     *)
(* stop in flight is terminate()'s and terminated that terminate() has     *)
(* returned.                                                               *)
(***************************************************************************)
start_polls == 50

WebIdle ==
    [servers |-> <<>>, task |-> 0, server |-> 0,
     start_pc |-> "idle", polls |-> 0, stop_pc |-> "idle", awaited |-> 0,
     port_taken |-> FALSE, auto |-> "none", closing |-> FALSE, terminated |-> FALSE]

Alive(w, id) == id \in 1..Len(w.servers) /\ w.servers[id].state = "alive"

\* WebUIServer.is_running
IsRunning(w) == w.task # 0 /\ Alive(w, w.task)

\* one of the servers of this process listens on the port
Listening(w) == \E id \in 1..Len(w.servers) : Alive(w, id) /\ w.servers[id].started

\* a mutant: the port is never looked at
IsPortAvailableUnchecked(w) == TRUE

\* Main._is_port_available: the bind fails when somebody listens on the port
IsPortAvailable(w) == ~w.port_taken /\ ~Listening(w)

WebStep(op, res) == [Blank EXCEPT !.op = op, !.res = res]

WebLeaves ==
    UNCHANGED <<star_handlers_registry, star_map, alter_cmd, auto_apply_on_load,
                initialized, monitor_vars, calls, overlapped, budget, batch>>

\* _start_webui up to "await self._is_port_available()"
StartBegin ==
    /\ webui.start_pc = "idle"
    /\ Len(webui.servers) < MaxServers
    /\ IF IsRunning(webui)
       THEN /\ last' = WebStep("webui_start", "AlreadyRunning")
            /\ UNCHANGED webui
       ELSE /\ last' = WebStep("webui_start_check", "")
            /\ webui' = [webui EXCEPT !.start_pc = "check"]
    /\ WebLeaves

\* the port check has answered; when the port is free server.start() creates
\* the server and its task and runs the first round of its loop up to the sleep
StartChecked ==
    /\ webui.start_pc = "check"
    /\ IF ~IsPortAvailable(webui)
       THEN /\ last' = WebStep("webui_start", "PortTaken")
            /\ webui' = [webui EXCEPT !.start_pc = "idle"]
       ELSE IF IsRunning(webui)
       THEN \* start() returns at once and the command announces the start
            /\ last' = WebStep("webui_start", "Started")
            /\ webui' = [webui EXCEPT !.start_pc = "idle"]
       ELSE /\ last' = WebStep("webui_start_task", "")
            /\ webui' = [webui EXCEPT
                            !.servers = Append(@, [state |-> "alive", started |-> FALSE,
                                                   should_exit |-> FALSE]),
                            !.task = Len(webui.servers) + 1,
                            !.server = Len(webui.servers) + 1,
                            !.start_pc = "poll", !.polls = 0]
    /\ WebLeaves

\* a mutant: the loop goes on until the server has started or its task has ended
StartPolledUnbounded(w) ==
    IF w.server # 0 /\ w.servers[w.server].started THEN "Started"
    ELSE IF ~Alive(w, w.task) THEN "Failed"
    ELSE ""

\* a sleep of the start loop is over: after the last one the loop is left and
\* start() returns; otherwise the next round looks at self._server.started,
\* then at self._server_task.done() (which raises when stop() has cleared it)
StartPolled(w) ==
    IF w.polls + 1 >= start_polls THEN "Started"
    ELSE IF w.server # 0 /\ w.servers[w.server].started THEN "Started"
    ELSE IF ~Alive(w, w.task) THEN "Failed"
    ELSE ""

StartPoll ==
    /\ webui.start_pc = "poll"
    /\ LET res == StartPolled(webui)
       IN IF res = ""
          THEN /\ last' = WebStep("webui_start_poll", "")
               /\ webui' = [webui EXCEPT !.polls = @ + 1]
          ELSE /\ last' = WebStep("webui_start", res)
               /\ webui' = [webui EXCEPT !.start_pc = "idle", !.polls = 0]
    /\ WebLeaves

\* a mutant: stop() returns without awaiting the task
StopWaitedAtOnce(w) == TRUE

\* "await self._server_task" of stop() is over when that task has ended
StopWaited(w) == ~Alive(w, w.awaited)

\* _stop_webui up to "await self._server_task"
StopBegin ==
    /\ webui.stop_pc = "idle"
    /\ IF ~IsRunning(webui)
       THEN /\ last' = WebStep("webui_stop", "NotRunning")
            /\ UNCHANGED webui
       ELSE /\ last' = WebStep("webui_stop_wait", "")
            /\ webui' = [webui EXCEPT
                            !.stop_pc = "wait", !.awaited = webui.task,
                            !.servers = IF webui.server = 0 THEN @
                                        ELSE [@ EXCEPT ![webui.server].should_exit = TRUE]]
    /\ WebLeaves

\* the awaited task has ended: the references are cleared, or when the task
\* raised only _server_task is and the command reports the failure
StopReturn ==
    /\ webui.stop_pc = "wait"
    /\ StopWaited(webui)
    /\ IF webui.servers[webui.awaited].state = "failed"
       THEN /\ last' = WebStep("webui_stop", "Failed")
            /\ webui' = [webui EXCEPT !.stop_pc = "idle", !.awaited = 0, !.task = 0,
                                      !.closing = FALSE,
                                      !.terminated = @ \/ webui.closing]
       ELSE /\ last' = WebStep("webui_stop", "Stopped")
            /\ webui' = [webui EXCEPT !.stop_pc = "idle", !.awaited = 0,
                                      !.task = 0, !.server = 0,
                                      !.closing = FALSE,
                                      !.terminated = @ \/ webui.closing]
    /\ WebLeaves

\* uvicorn: the server binds the port and listens
ServerStarts(id) ==
    /\ Alive(webui, id) /\ ~webui.servers[id].started /\ ~webui.servers[id].should_exit
    /\ ~webui.port_taken /\ ~Listening(webui)
    /\ webui' = [webui EXCEPT !.servers[id].started = TRUE]
    /\ last' = WebStep("server_starts", "")
    /\ WebLeaves

\* uvicorn: the startup fails (the port was bound after the check) and the task ends
ServerFails(id) ==
    /\ Alive(webui, id) /\ ~webui.servers[id].started
    /\ webui.port_taken \/ Listening(webui)
    /\ webui' = [webui EXCEPT !.servers[id].state = "failed"]
    /\ last' = WebStep("server_fails", "")
    /\ WebLeaves

\* uvicorn: should_exit is seen, the listener is closed and serve() returns
ServerExits(id) ==
    /\ Alive(webui, id) /\ webui.servers[id].should_exit
    /\ webui' = [webui EXCEPT !.servers[id].state = "done",
                              !.servers[id].started = FALSE]
    /\ last' = WebStep("server_exits", "")
    /\ WebLeaves

\* another process binds, or releases, the configured port
PortChanges ==
    /\ ~Listening(webui)
    /\ webui' = [webui EXCEPT !.port_taken = ~@]
    /\ last' = WebStep("port", "")
    /\ WebLeaves

(***************************************************************************)
(* Failures and cancellation of the reconciliation loop.  An exception of  *)
(* the signature scan is caught by the loop's "except Exception", which    *)
(* sleeps backoff_interval (mon_pc "backoff") and goes round again.  An    *)
(* exception inside _apply_config_to_handlers (the store read, or the      *)
(* apply of some handler) is caught by that function's own "except         *)
(* Exception": the handlers before the failing one are applied and the     *)
(* tick goes on.  terminate() cancels the task: CancelledError is raised   *)
(* at the await the task is suspended at and "except CancelledError:       *)
(* break" ends the loop (mon_pc "done"), except in the backoff sleep,      *)
(* which is inside an except clause, where it leaves the task (mon_pc      *)
(* "cancelled").                                                           *)
(***************************************************************************)
MonitorSnapshotFails ==
    /\ mon_pc = "sleep"
    /\ mon_pc' = "backoff"
    /\ since_full_apply' = Min(since_full_apply + check_interval, apply_interval)
    /\ last' = [Blank EXCEPT !.op = "wake_fails"]
    /\ UNCHANGED <<star_handlers_registry, star_map, alter_cmd, auto_apply_on_load,
                   initialized, last_handler_signatures, current_handler_signatures,
                   tick_elapsed>>

\* asyncio.sleep(5) of the except clause is over
MonitorBackoffDone ==
    /\ mon_pc = "backoff"
    /\ mon_pc' = "sleep"
    /\ since_full_apply' = Min(since_full_apply + backoff_interval, apply_interval)
    /\ last' = [Blank EXCEPT !.op = "backoff"]
    /\ UNCHANGED <<star_handlers_registry, star_map, alter_cmd, auto_apply_on_load,
                   initialized, last_handler_signatures, current_handler_signatures,
                   tick_elapsed>>

\* the apply as far as the handler at place k (0: the store read fails)
ApplyConfigPartly(cfg, registry, smap, k) ==
    IF DOMAIN cfg = {} THEN registry
    ELSE [i \in DOMAIN registry |->
             IF i <= k THEN ApplyToHandler(cfg, smap, registry[i]) ELSE registry[i]]

MonitorApplyFails ==
    /\ mon_pc = "apply"
    /\ \E k \in 0..(Len(star_handlers_registry) - 1) :
          LET applied == ApplyConfigPartly(alter_cmd, star_handlers_registry, star_map, k)
          IN /\ star_handlers_registry' = applied
             /\ last' = [Blank EXCEPT !.op = "apply_fails",
                            !.fixed = ChangedBy(star_handlers_registry, applied)]
    /\ mon_pc' = "sleep"
    /\ last_handler_signatures' = current_handler_signatures
    /\ current_handler_signatures' = {}
    /\ UNCHANGED <<star_map, alter_cmd, auto_apply_on_load, initialized,
                   since_full_apply, tick_elapsed>>

\* where the task is once a CancelledError has been raised at its await
CancelledAt(pc) ==
    IF pc \in {"sleep", "grace", "apply"} THEN "done"
    ELSE IF pc = "backoff" THEN "cancelled"
    ELSE pc

\* initialize() with the web UI enabled: beside the first apply and the monitor
\* task it creates the task of _auto_start_webui, which it keeps no reference to
InitializeWeb ==
    /\ Initialize
    /\ webui' = [webui EXCEPT !.auto = "pending"]
    /\ UNCHANGED <<calls, overlapped, budget, batch>>

\* the first step of _auto_start_webui, up to "await self._is_port_available()"
AutoStartBegin ==
    /\ webui.auto = "pending"
    /\ webui.start_pc = "idle"
    /\ Len(webui.servers) < MaxServers
    /\ IF IsRunning(webui)
       THEN /\ last' = WebStep("webui_auto_start", "AlreadyRunning")
            /\ webui' = [webui EXCEPT !.auto = "over"]
       ELSE /\ last' = WebStep("webui_auto_start_check", "")
            /\ webui' = [webui EXCEPT !.auto = "over", !.start_pc = "check"]
    /\ WebLeaves

\* Main.terminate: the monitor task is cancelled and awaited, then the web
\* server is stopped (its stop is left in flight) or its wrapper is dropped
Terminate ==
    /\ initialized
    /\ ~webui.terminated /\ ~webui.closing
    /\ mon_pc' = CancelledAt(mon_pc)
    /\ last' = [Blank EXCEPT !.op = "terminate", !.target = mon_pc]
    /\ webui' = IF IsRunning(webui)
                THEN [webui EXCEPT
                         !.stop_pc = "wait", !.awaited = webui.task,
                         !.closing = TRUE,
                         !.servers = IF webui.server = 0 THEN @
                                     ELSE [@ EXCEPT ![webui.server].should_exit = TRUE]]
                ELSE [webui EXCEPT !.task = 0, !.server = 0, !.terminated = TRUE]
    /\ UNCHANGED <<star_handlers_registry, star_map, alter_cmd, auto_apply_on_load,
                   initialized, last_handler_signatures, current_handler_signatures,
                   since_full_apply, tick_elapsed, calls, overlapped, budget, batch>>

(***************************************************************************)
(* Initial states: the host has loaded the plugins (fresh handler objects  *)
(* with the defaults of the sources); the override map is what an earlier  *)
(* run of the process persisted.                                           *)
(***************************************************************************)
InitRegistry == PluginSource("m0") \o PluginSource("m1") \o PluginSource("m2")

InitStarMap == [m \in Modules |-> [name |-> PluginNameOf(m), activated |-> TRUE]]

\* override records an earlier run can have left: <<>> is "no record"
PersistedRecords ==
    { <<>>,
      << [permission |-> "member"] >>,
      << [aliases |-> <<>>] >>,
      << [name |-> "c", permission |-> "admin", aliases |-> <<"y", "x">>] >> }

RecordDict(handler_name, choice) ==
    IF choice = <<>> THEN EmptyDict ELSE handler_name :> choice[1]

PluginDict(plugin_name, plugin_cfg) ==
    IF DOMAIN plugin_cfg = {} THEN EmptyDict ELSE plugin_name :> plugin_cfg

PersistedStore(c1, c2, c3) ==
    PluginDict("p1", RecordDict("h1", c1) @@ RecordDict("h2", c2))
        @@ PluginDict("p2", RecordDict("h3", c3))

PersistedStores ==
    { PersistedStore(c1, c2, c3) :
         c1 \in PersistedRecords,
         c2 \in {<<>>, << [permission |-> "member", aliases |-> <<>>] >>},
         c3 \in {<<>>, << [permission |-> "admin", aliases |-> <<"x">>] >>} }

\* the state of this plugin after construction
InitControl ==
    /\ initialized = FALSE
    /\ mon_pc = "none"
    /\ last_handler_signatures = {}
    /\ current_handler_signatures = {}
    /\ since_full_apply = apply_interval
    /\ tick_elapsed = 0
    /\ last = Blank
    /\ calls = [c \in Callers |-> Idle]
    /\ overlapped = FALSE
    /\ batch = BatchIdle
    /\ webui = WebIdle

InitCommon ==
    /\ star_handlers_registry = InitRegistry
    /\ star_map = InitStarMap
    /\ InitControl

(***************************************************************************)
(* SpecMonitor: the reconciliation loop against the plugin loader, over    *)
(* every persisted override map; no service call changes the map.          *)
(***************************************************************************)
InitMonitor ==
    /\ InitCommon
    /\ alter_cmd \in PersistedStores
    /\ auto_apply_on_load \in BOOLEAN
    /\ budget = 0

\* the plugins the loader reloads and switches in this specification
ChurningModules == {"m1"}

NextMonitor ==
    \/ \E m \in ChurningModules : Unload(m) /\ UNCHANGED side
    \/ \E m \in ChurningModules : Load(m) /\ UNCHANGED side
    \/ \E m \in ChurningModules : Deactivate(m) /\ UNCHANGED side
    \/ \E m \in ChurningModules : Activate(m) /\ UNCHANGED side
    \/ Initialize /\ UNCHANGED side
    \/ MonitorWake /\ UNCHANGED side
    \/ MonitorGraceDone /\ UNCHANGED side
    \/ MonitorApply /\ UNCHANGED side
    \/ \E p \in {"p1", "ghost"} : SvcGetPluginCommands(p) /\ UNCHANGED side

SpecMonitor == InitMonitor /\ [][NextMonitor]_vars

(***************************************************************************)
(* SpecPermission: the permission operations of both facades against the   *)
(* plugin loader.  The override map starts empty or as an earlier run left *)
(* it.                                                                     *)
(***************************************************************************)
ServiceStores ==
    { EmptyDict,
      PersistedStore(<< [name |-> "c", aliases |-> <<"y", "x">>] >>,
                     << [permission |-> "member", aliases |-> <<>>] >>,
                     <<>>) }

InitService ==
    /\ InitCommon
    /\ alter_cmd \in ServiceStores
    /\ auto_apply_on_load = TRUE
    /\ budget = 0

PluginArgs == {"p1", "ghost"}

TierArgs == {"admin", "member", "root"}

HandlerArgs == {"h1", "h2", "h9"}

NameArgs == {"a", "b", "c"}

NextPermission ==
    \/ \E m \in ChurningModules : Unload(m) /\ UNCHANGED side
    \/ \E m \in ChurningModules : Load(m) /\ UNCHANGED side
    \/ \E m \in ChurningModules : Deactivate(m) /\ UNCHANGED side
    \/ \E m \in ChurningModules : Activate(m) /\ UNCHANGED side
    \/ Initialize /\ UNCHANGED side
    \/ \E p \in PluginArgs, h \in HandlerArgs, t \in TierArgs :
          SvcSetCommandPermission(p, h, t) /\ UNCHANGED side
    \/ \E p \in PluginArgs, t \in TierArgs :
          SvcSetPluginPermission(p, t) /\ UNCHANGED side
    \/ \E p \in PluginArgs, c \in NameArgs, t \in TierArgs \cup {""} :
          ChatSetCommand(p, c, t) /\ UNCHANGED side
    \/ \E p \in PluginArgs, t \in TierArgs \cup {""} :
          ChatBatchSetPlugin(p, t) /\ UNCHANGED side
    \/ \E p \in PluginArgs, t \in {"admin", "member"} :
          ChatBatchHelper(p, t) /\ UNCHANGED side
    \/ \E p \in PluginArgs, t \in {"member", "root", ""} :
          ApiSetPluginPermission(p, t) /\ UNCHANGED side
    \/ \E p \in PluginArgs, h \in {"h1"}, t \in {"member", "root", ""} :
          ApiSetCommandPermission(p, h, t) /\ UNCHANGED side
    \/ \E p \in PluginArgs : SvcGetPluginCommands(p) /\ UNCHANGED side

SpecPermission == InitService /\ [][NextPermission]_vars

(***************************************************************************)
(* SpecName: the chat commands that take a command name, and the renames   *)
(* of both facades, against reloads of the plugin.                         *)
(***************************************************************************)
NameStores ==
    { EmptyDict, PersistedStore(<< [name |-> "c"] >>, <<>>, <<>>) }

InitName ==
    /\ InitCommon
    /\ alter_cmd \in NameStores
    /\ auto_apply_on_load = TRUE
    /\ budget = 0

NextName ==
    \/ \E m \in ChurningModules : Unload(m) /\ UNCHANGED side
    \/ \E m \in ChurningModules : Load(m) /\ UNCHANGED side
    \/ Initialize /\ UNCHANGED side
    \/ \E c \in NameArgs, n \in {"a", "b", ""} :
          ChatSetCommandName("p1", c, n) /\ UNCHANGED side
    \/ \E h \in {"h2", "h9"} : SvcSetCommandName("p1", h, "b") /\ UNCHANGED side
    \/ \E p \in PluginArgs : ChatSetCommand(p, "a", "admin") /\ UNCHANGED side
    \/ ChatAddAlias("p1", "b", "x") /\ UNCHANGED side
    \/ ChatRemoveAlias("p1", "b", "x") /\ UNCHANGED side
    \/ \E c \in {"b", "c"} : ChatListAliases("p1", c) /\ UNCHANGED side
    \/ SvcGetPluginCommands("p1") /\ UNCHANGED side

SpecName == InitName /\ [][NextName]_vars

(***************************************************************************)
(* SpecAlias: the service's set_command_aliases and get_plugin_commands    *)
(* against reloads of the plugin.  No initial override map sets aliases.   *)
(***************************************************************************)
AliasArgs == {"x", "y"}

AliasLists ==
    UNION { [1..n -> AliasArgs] : n \in 0..MaxAliasLen }

\* "aliases" values of web requests: lists with an empty alias, null, a string
ApiAliasBodies ==
    { [is_list |-> TRUE, items |-> <<"">>],
      [is_list |-> TRUE, items |-> <<"y", "">>],
      [is_list |-> TRUE, items |-> <<"y">>],
      [is_list |-> FALSE, items |-> <<>>],
      [is_list |-> FALSE, items |-> <<"x">>] }

AliasStores ==
    { EmptyDict, PersistedStore(<< [permission |-> "member"] >>, <<>>, <<>>) }

InitAlias ==
    /\ InitCommon
    /\ alter_cmd \in AliasStores
    /\ auto_apply_on_load = TRUE
    /\ budget = 0

NextAlias ==
    \/ \E m \in ChurningModules : Unload(m) /\ UNCHANGED side
    \/ \E m \in ChurningModules : Load(m) /\ UNCHANGED side
    \/ Initialize /\ UNCHANGED side
    \/ \E p \in PluginArgs, h \in {"h2", "h9"}, aliases \in AliasLists :
          SvcSetCommandAliases(p, h, aliases) /\ UNCHANGED side
    \/ \E body \in ApiAliasBodies :
          ApiSetCommandAliases("p1", "h2", body) /\ UNCHANGED side
    \/ \E p \in PluginArgs : SvcGetPluginCommands(p) /\ UNCHANGED side

SpecAlias == InitAlias /\ [][NextAlias]_vars

(***************************************************************************)
(* SpecLive: the reconciliation loop with auto_apply_on_load set, against  *)
(* at most MaxDisturb disturbances (reloads, switches, web requests, which *)
(* may overlap).  The event loop runs a task whose sleep is over and the   *)
(* store answers every get and put: weak fairness of these steps.          *)
(***************************************************************************)
LiveStores ==
    { EmptyDict,
      PersistedStore(<< [aliases |-> <<>>] >>,
                     << [permission |-> "member", aliases |-> <<>>] >>,
                     <<>>) }

InitLive ==
    /\ InitCommon
    /\ alter_cmd \in LiveStores
    /\ auto_apply_on_load = TRUE
    /\ budget = MaxDisturb

Spend == budget > 0 /\ budget' = budget - 1

NextLive ==
    \/ \E m \in ChurningModules :
          Unload(m) /\ calls' = Detached(m) /\ Spend /\ UNCHANGED <<overlapped, batch, webui>>
    \/ \E m \in ChurningModules :
          Load(m) /\ Spend /\ UNCHANGED <<calls, overlapped, batch, webui>>
    \/ CallBegin("w1", "permission", "p1", "h1", "admin") /\ Spend
          /\ UNCHANGED <<batch, webui>>
    \/ CallBegin("w2", "name", "p1", "h1", "c") /\ Spend
          /\ UNCHANGED <<batch, webui>>
    \/ \E c \in Callers : CallGot(c) /\ UNCHANGED <<budget, batch, webui>>
    \/ \E c \in Callers : CallPut(c) /\ UNCHANGED <<budget, batch, webui>>
    \/ Initialize /\ UNCHANGED side
    \/ MonitorWake /\ UNCHANGED side
    \/ MonitorGraceDone /\ UNCHANGED side
    \/ MonitorApply /\ UNCHANGED side

FairLive ==
    /\ WF_vars(Initialize /\ UNCHANGED side)
    /\ WF_vars(MonitorWake /\ UNCHANGED side)
    /\ WF_vars(MonitorGraceDone /\ UNCHANGED side)
    /\ WF_vars(MonitorApply /\ UNCHANGED side)
    /\ \A c \in Callers : WF_vars(CallGot(c) /\ UNCHANGED <<budget, batch, webui>>)
    /\ \A c \in Callers : WF_vars(CallPut(c) /\ UNCHANGED <<budget, batch, webui>>)

SpecLive == InitLive /\ [][NextLive]_vars /\ FairLive

(***************************************************************************)
(* SpecAwait: service calls suspended on the store.  One                   *)
(* set_plugin_permission of either facade and one set_command_name of the  *)
(* service run from await to await while the host switches the plugin off  *)
(* and on and a reader queries the service.                                *)
(***************************************************************************)
AwaitStores ==
    { EmptyDict, PersistedStore(<<>>, << [permission |-> "member"] >>, <<>>) }

InitAwait ==
    /\ InitCommon
    /\ alter_cmd \in AwaitStores
    /\ auto_apply_on_load = TRUE
    /\ budget = 0

NextAwait ==
    \/ \E m \in ChurningModules : Deactivate(m) /\ UNCHANGED side
    \/ \E m \in ChurningModules : Activate(m) /\ UNCHANGED side
    \/ Initialize /\ UNCHANGED side
    \/ \E kind \in {"svc", "chat"}, p \in PluginArgs, t \in {"admin", "member"} :
          BatchBegin(kind, p, t) /\ UNCHANGED webui
    \/ BatchGot /\ UNCHANGED webui
    \/ BatchPut /\ UNCHANGED webui
    \/ CallBegin("w2", "name", "p1", "h1", "c") /\ UNCHANGED <<budget, batch, webui>>
    \/ \E c \in Callers : CallGot(c) /\ UNCHANGED <<budget, batch, webui>>
    \/ \E c \in Callers : CallPut(c) /\ UNCHANGED <<budget, batch, webui>>
    \/ SvcGetPluginCommands("p1") /\ UNCHANGED side

SpecAwait == InitAwait /\ [][NextAwait]_vars

(***************************************************************************)
(* SpecOwn: the permission operations aimed at this plugin's own handlers, *)
(* with the reconciliation loop running.                                   *)
(***************************************************************************)
InitOwn ==
    /\ star_handlers_registry = InitRegistry \o PluginSource(OwnModule)
    /\ star_map = Put(InitStarMap, OwnModule,
                      [name |-> PluginNameOf(OwnModule), activated |-> TRUE])
    /\ InitControl
    /\ alter_cmd = EmptyDict
    /\ auto_apply_on_load = TRUE
    /\ budget = 0

NextOwn ==
    \/ Initialize /\ UNCHANGED side
    \/ MonitorWake /\ UNCHANGED side
    \/ MonitorGraceDone /\ UNCHANGED side
    \/ MonitorApply /\ UNCHANGED side
    \/ \E t \in {"admin", "member"} : SvcSetPluginPermission("perm", t) /\ UNCHANGED side
    \/ \E t \in {"admin", "member"} :
          SvcSetCommandPermission("perm", "perm_list", t) /\ UNCHANGED side
    \/ \E t \in {"admin", "member"} : ChatBatchSetPlugin("perm", t) /\ UNCHANGED side
    \/ ChatSetCommand("perm", "plugin", "member") /\ UNCHANGED side

SpecOwn == InitOwn /\ [][NextOwn]_vars

(***************************************************************************)
(* SpecChatAlias: the chat commands alias add, alias remove and alias list *)
(* on the command group of p1, against reloads of the plugin and the       *)
(* reconciliation loop.                                                    *)
(***************************************************************************)
ChatAliasStores ==
    { EmptyDict,
      PersistedStore(<<>>, << [aliases |-> <<>>] >>, <<>>),
      PersistedStore(<<>>, << [aliases |-> <<"y">>] >>, <<>>) }

InitChatAlias ==
    /\ InitCommon
    /\ alter_cmd \in ChatAliasStores
    /\ auto_apply_on_load = TRUE
    /\ budget = 0

NextChatAlias ==
    \/ \E m \in ChurningModules : Unload(m) /\ UNCHANGED side
    \/ \E m \in ChurningModules : Load(m) /\ UNCHANGED side
    \/ Initialize /\ UNCHANGED side
    \/ MonitorWake /\ UNCHANGED side
    \/ MonitorGraceDone /\ UNCHANGED side
    \/ MonitorApply /\ UNCHANGED side
    \/ \E c \in {"b", "c"}, a \in AliasArgs \cup {""} :
          ChatAddAlias("p1", c, a) /\ UNCHANGED side
    \/ \E c \in {"b", "c"}, a \in AliasArgs \cup {""} :
          ChatRemoveAlias("p1", c, a) /\ UNCHANGED side
    \/ ChatListAliases("p1", "b") /\ UNCHANGED side

SpecChatAlias == InitChatAlias /\ [][NextChatAlias]_vars

(***************************************************************************)
(* SpecList: the two plugin lists, with this plugin registered beside p1   *)
(* and p2, against a host that reloads and switches off and on p1 and p2   *)
(* in any order.                                                           *)
(***************************************************************************)
NextList ==
    \/ \E m \in Modules : Unload(m) /\ UNCHANGED side
    \/ \E m \in Modules : Load(m) /\ UNCHANGED side
    \/ \E m \in Modules : Deactivate(m) /\ UNCHANGED side
    \/ \E m \in Modules : Activate(m) /\ UNCHANGED side
    \/ Initialize /\ UNCHANGED side
    \/ SvcGetAllPlugins /\ UNCHANGED side
    \/ ChatListPlugins /\ UNCHANGED side

SpecList == InitOwn /\ [][NextList]_vars

(***************************************************************************)
(* SpecWeb: the webui commands, the uvicorn task and the port.             *)
(***************************************************************************)
InitWeb ==
    /\ InitCommon
    /\ alter_cmd = EmptyDict
    /\ auto_apply_on_load = TRUE
    /\ budget = 0

NextWeb ==
    \/ StartBegin
    \/ StartChecked
    \/ StartPoll
    \/ StopBegin
    \/ StopReturn
    \/ \E id \in 1..MaxServers : ServerStarts(id)
    \/ \E id \in 1..MaxServers : ServerFails(id)
    \/ \E id \in 1..MaxServers : ServerExits(id)
    \/ PortChanges

SpecWeb == InitWeb /\ [][NextWeb]_vars

(***************************************************************************)
(* SpecFaults: the reconciliation loop with failing ticks and terminate(), *)
(* against reloads of p1.                                                  *)
(***************************************************************************)
FaultStores ==
    { EmptyDict,
      PersistedStore(<< [name |-> "c"] >>, << [permission |-> "member"] >>, <<>>) }

InitFaults ==
    /\ InitCommon
    /\ alter_cmd \in FaultStores
    /\ auto_apply_on_load = TRUE
    /\ budget = 0

NextFaults ==
    \/ \E m \in ChurningModules : Unload(m) /\ UNCHANGED side
    \/ \E m \in ChurningModules : Load(m) /\ UNCHANGED side
    \/ Initialize /\ UNCHANGED side
    \/ MonitorWake /\ UNCHANGED side
    \/ MonitorGraceDone /\ UNCHANGED side
    \/ MonitorApply /\ UNCHANGED side
    \/ MonitorSnapshotFails /\ UNCHANGED side
    \/ MonitorBackoffDone /\ UNCHANGED side
    \/ MonitorApplyFails /\ UNCHANGED side
    \/ Terminate

SpecFaults == InitFaults /\ [][NextFaults]_vars

(***************************************************************************)
(* SpecFilters: single and batch permission sets of both facades, web      *)
(* requests in flight, the reconciliation loop and reloads of p1, all      *)
(* interleaved.                                                            *)
(***************************************************************************)
InitFilters ==
    /\ InitCommon
    /\ alter_cmd = EmptyDict
    /\ auto_apply_on_load = TRUE
    /\ budget = 0

NextFilters ==
    \/ \E m \in ChurningModules :
          Unload(m) /\ calls' = Detached(m)
          /\ UNCHANGED <<overlapped, budget, batch, webui>>
    \/ \E m \in ChurningModules : Load(m) /\ UNCHANGED side
    \/ Initialize /\ UNCHANGED side
    \/ MonitorWake /\ UNCHANGED side
    \/ MonitorGraceDone /\ UNCHANGED side
    \/ MonitorApply /\ UNCHANGED side
    \/ SvcSetPluginPermission("p1", "member") /\ UNCHANGED side
    \/ ChatBatchSetPlugin("p1", "admin") /\ UNCHANGED side
    \/ ChatSetCommand("p1", "a", "member") /\ UNCHANGED side
    \/ CallBegin("w1", "permission", "p1", "h1", "admin")
          /\ UNCHANGED <<budget, batch, webui>>
    \/ \E c \in Callers : CallGot(c) /\ UNCHANGED <<budget, batch, webui>>
    \/ \E c \in Callers : CallPut(c) /\ UNCHANGED <<budget, batch, webui>>

SpecFilters == InitFilters /\ [][NextFilters]_vars

(***************************************************************************)
(* SpecApplier: the applier (initialize and the reconciliation loop) over  *)
(* partial override records, against reloads of p1, a host that fills the  *)
(* filters' caches, and alias sets of the service.                         *)
(***************************************************************************)
ApplierStores ==
    { EmptyDict,
      PersistedStore(<< [permission |-> "member"] >>, << [aliases |-> <<>>] >>, <<>>),
      PersistedStore(<< [name |-> "c"] >>, << [permission |-> "member"] >>,
                     << [aliases |-> <<"x">>] >>),
      PersistedStore(<<>>, << [name |-> "d", aliases |-> <<"y">>] >>, <<>>) }

InitApplier ==
    /\ InitCommon
    /\ alter_cmd \in ApplierStores
    /\ auto_apply_on_load = TRUE
    /\ budget = 0

NextApplier ==
    \/ \E m \in ChurningModules : Unload(m) /\ UNCHANGED side
    \/ \E m \in ChurningModules : Load(m) /\ UNCHANGED side
    \/ \E i \in 2..4 : HostCaches(i) /\ UNCHANGED side
    \/ Initialize /\ UNCHANGED side
    \/ MonitorWake /\ UNCHANGED side
    \/ MonitorGraceDone /\ UNCHANGED side
    \/ MonitorApply /\ UNCHANGED side
    \/ \E aliases \in {<<>>, <<"y">>} :
          SvcSetCommandAliases("p1", "h2", aliases) /\ UNCHANGED side

SpecApplier == InitApplier /\ [][NextApplier]_vars

(***************************************************************************)
(* SpecCache: every writer of a name or an alias set (the service, the     *)
(* chat commands, initialize and the reconciliation loop) against a host   *)
(* that fills the filters' caches.                                         *)
(***************************************************************************)
InitCache ==
    /\ InitCommon
    /\ alter_cmd \in {EmptyDict, PersistedStore(<< [name |-> "c"] >>, <<>>, <<>>)}
    /\ auto_apply_on_load = TRUE
    /\ budget = 0

NextCache ==
    \/ \E i \in 2..3 : HostCaches(i) /\ UNCHANGED side
    \/ Initialize /\ UNCHANGED side
    \/ MonitorWake /\ UNCHANGED side
    \/ MonitorGraceDone /\ UNCHANGED side
    \/ MonitorApply /\ UNCHANGED side
    \/ SvcSetCommandName("p1", "h1", "c") /\ UNCHANGED side
    \/ SvcSetCommandAliases("p1", "h2", <<"y">>) /\ UNCHANGED side
    \/ ChatSetCommandName("p1", "b", "d") /\ UNCHANGED side
    \/ ChatAddAlias("p1", "a", "z") /\ UNCHANGED side
    \/ ChatRemoveAlias("p1", "a", "z") /\ UNCHANGED side

SpecCache == InitCache /\ [][NextCache]_vars

(***************************************************************************)
(* SpecPatch: the single-target mutations of the service and of the chat   *)
(* commands, one after the other, over stores that hold records of several *)
(* fields, of several handlers and of both plugins.                        *)
(***************************************************************************)
PatchStores ==
    { EmptyDict,
      PersistedStore(<< [permission |-> "member"] >>, <<>>,
                     << [permission |-> "admin", aliases |-> <<"x">>] >>),
      PersistedStore(<< [name |-> "c", permission |-> "admin", aliases |-> <<"y", "x">>] >>,
                     << [permission |-> "member", aliases |-> <<>>] >>,
                     << [permission |-> "admin", aliases |-> <<"x">>] >>) }

InitPatch ==
    /\ InitCommon
    /\ alter_cmd \in PatchStores
    /\ auto_apply_on_load = TRUE
    /\ budget = 0

NextPatch ==
    \/ Initialize /\ UNCHANGED side
    \/ \E h \in {"h1", "h9"}, t \in {"admin", "member"} :
          SvcSetCommandPermission("p1", h, t) /\ UNCHANGED side
    \/ \E n \in {"a", "c"} : SvcSetCommandName("p1", "h1", n) /\ UNCHANGED side
    \/ \E aliases \in {<<>>, <<"y">>} :
          SvcSetCommandAliases("p1", "h2", aliases) /\ UNCHANGED side
    \/ \E c \in {"a", "c"} : ChatSetCommand("p1", c, "member") /\ UNCHANGED side
    \/ \E c \in {"a", "b"} : ChatSetCommandName("p1", c, "d") /\ UNCHANGED side
    \/ \E c \in {"b", "d"} : ChatAddAlias("p1", c, "z") /\ UNCHANGED side
    \/ \E c \in {"b", "d"} : ChatRemoveAlias("p1", c, "z") /\ UNCHANGED side

SpecPatch == InitPatch /\ [][NextPatch]_vars

(***************************************************************************)
(* SpecFacades: the mutations of both facades, the service's and the chat  *)
(* commands', one after the other on one registry and one store.           *)
(***************************************************************************)
NextFacades ==
    \/ Initialize /\ UNCHANGED side
    \/ \E h \in {"h1", "h9"}, t \in {"admin", "owner"} :
          SvcSetCommandPermission("p1", h, t) /\ UNCHANGED side
    \/ \E c \in {"a", "c"}, t \in {"member", "owner"} :
          ChatSetCommand("p1", c, t) /\ UNCHANGED side
    \/ \E q \in {"p1", "p9"} : SvcSetPluginPermission(q, "member") /\ UNCHANGED side
    \/ \E q \in {"p1", "p9"} : ChatBatchSetPlugin(q, "admin") /\ UNCHANGED side
    \/ SvcSetCommandName("p1", "h1", "c") /\ UNCHANGED side
    \/ \E c \in {"b", "c"} : ChatSetCommandName("p1", c, "d") /\ UNCHANGED side
    \/ \E aliases \in {<<>>, <<"y">>} :
          SvcSetCommandAliases("p1", "h2", aliases) /\ UNCHANGED side
    \/ \E c \in {"b", "d"} : ChatAddAlias("p1", c, "z") /\ UNCHANGED side
    \/ ChatRemoveAlias("p1", "b", "x") /\ UNCHANGED side

SpecFacades == InitPatch /\ [][NextFacades]_vars

(***************************************************************************)
(* SpecCross: two service calls on handlers of different plugins, each     *)
(* from one await to the next, beside the reconciliation loop.             *)
(***************************************************************************)
InitCross ==
    /\ InitCommon
    /\ alter_cmd \in {EmptyDict, PersistedStore(<<>>, << [aliases |-> <<>>] >>, <<>>)}
    /\ auto_apply_on_load = TRUE
    /\ budget = 0

NextCross ==
    \/ Initialize /\ UNCHANGED side
    \/ MonitorWake /\ UNCHANGED side
    \/ MonitorGraceDone /\ UNCHANGED side
    \/ MonitorApply /\ UNCHANGED side
    \/ CallBegin("w1", "permission", "p1", "h1", "admin")
          /\ UNCHANGED <<budget, batch, webui>>
    \/ CallBegin("w2", "name", "p2", "h3", "c")
          /\ UNCHANGED <<budget, batch, webui>>
    \/ \E c \in Callers : CallGot(c) /\ UNCHANGED <<budget, batch, webui>>
    \/ \E c \in Callers : CallPut(c) /\ UNCHANGED <<budget, batch, webui>>

SpecCross == InitCross /\ [][NextCross]_vars

(***************************************************************************)
(* SpecStale: the reconciliation loop beside service mutations in flight   *)
(* on p1: a set_plugin_permission and two set_command_permission calls on  *)
(* h1 with different tiers.  No plugin is reloaded.                        *)
(***************************************************************************)
InitStale ==
    /\ InitCommon
    /\ alter_cmd \in {EmptyDict, PersistedStore(<< [permission |-> "member"] >>, <<>>, <<>>)}
    /\ auto_apply_on_load = TRUE
    /\ budget = 0

NextStale ==
    \/ Initialize /\ UNCHANGED side
    \/ MonitorWake /\ UNCHANGED side
    \/ MonitorGraceDone /\ UNCHANGED side
    \/ MonitorApply /\ UNCHANGED side
    \/ BatchBegin("svc", "p1", "admin") /\ UNCHANGED webui
    \/ BatchGot /\ UNCHANGED webui
    \/ BatchPut /\ UNCHANGED webui
    \/ CallBegin("w1", "permission", "p1", "h1", "admin")
          /\ UNCHANGED <<budget, batch, webui>>
    \/ CallBegin("w2", "permission", "p1", "h1", "member")
          /\ UNCHANGED <<budget, batch, webui>>
    \/ \E c \in Callers : CallGot(c) /\ UNCHANGED <<budget, batch, webui>>
    \/ \E c \in Callers : CallPut(c) /\ UNCHANGED <<budget, batch, webui>>

SpecStale == InitStale /\ [][NextStale]_vars

(***************************************************************************)
(* SpecTerminate: initialize with the web UI enabled, the automatic start, *)
(* the server's own steps, the reconciliation loop and terminate.          *)
(***************************************************************************)
NextTerminate ==
    \/ InitializeWeb
    \/ AutoStartBegin
    \/ StartChecked
    \/ StartPoll
    \/ StopReturn
    \/ \E id \in 1..MaxServers : ServerStarts(id)
    \/ \E id \in 1..MaxServers : ServerFails(id)
    \/ \E id \in 1..MaxServers : ServerExits(id)
    \/ PortChanges
    \/ MonitorWake /\ UNCHANGED side
    \/ MonitorGraceDone /\ UNCHANGED side
    \/ MonitorApply /\ UNCHANGED side
    \/ MonitorSnapshotFails /\ UNCHANGED side
    \/ MonitorBackoffDone /\ UNCHANGED side
    \/ Terminate

SpecTerminate == InitWeb /\ [][NextTerminate]_vars

(***************************************************************************)
(* Observations the properties are stated with.                            *)
(***************************************************************************)
Range(seq) == {seq[k] : k \in 1..Len(seq)}

LiveName(event_filters) == event_filters[FirstCommandFilter(event_filters)].name

LiveAliases(event_filters) == event_filters[FirstCommandFilter(event_filters)].alias

LiveTier(event_filters) ==
    IF FirstPermissionFilter(event_filters) = 0 THEN "none"
    ELSE event_filters[FirstPermissionFilter(event_filters)].ptype

RecordOf(plugin_name, handler_name) ==
    Get(Get(alter_cmd, plugin_name, EmptyDict), handler_name, EmptyDict)

\* places in the registry of the command handlers of activated plugins
SnapshotHandlers ==
    { i \in 1..Len(star_handlers_registry) :
         /\ Resolved(star_map, star_handlers_registry[i])
         /\ FirstCommandFilter(star_handlers_registry[i].event_filters) # 0 }

PluginOf(i) == star_map[star_handlers_registry[i].module].name

RecordAt(i) == RecordOf(PluginOf(i), star_handlers_registry[i].handler_name)

\* the live filters carry every field the record sets
Reflects(event_filters, cmd_cfg) ==
    /\ "name" \in DOMAIN cmd_cfg => LiveName(event_filters) = cmd_cfg["name"]
    /\ "aliases" \in DOMAIN cmd_cfg => LiveAliases(event_filters) = Range(cmd_cfg["aliases"])
    /\ "permission" \in DOMAIN cmd_cfg =>
          /\ NumPermissionFilters(event_filters) = 1
          /\ LiveTier(event_filters) = cmd_cfg["permission"]

\* m1 has been reloaded: its handlers are registered after those of m2
Reloaded ==
    /\ "m1" \in DOMAIN star_map
    /\ star_handlers_registry[Len(star_handlers_registry)].module = "m1"

(***************************************************************************)
(* C1  Reconciliation self-heal: right after a tick of the reconciliation  *)
(* loop has run its full apply, every command handler of an activated      *)
(* plugin carries, in its live filters, each field its override record     *)
(* sets: the name, the alias set, and one permission filter with the tier. *)
(* No service call is part of this specification, so the state is healed   *)
(* by the tick alone after the loader's reloads.                           *)
(***************************************************************************)
C1_SelfHeal ==
    last.op = "apply" =>
        \A i \in SnapshotHandlers :
            Reflects(star_handlers_registry[i].event_filters, RecordAt(i))

\* a tick's apply has just rewritten the fresh filters of the reloaded h1 and h2
C1_Witness ==
    /\ last.op = "apply"
    /\ Reloaded
    /\ {"h1", "h2"} \subseteq last.fixed
    /\ star_map["m1"].activated

(***************************************************************************)
(* C2  Idempotence of the applier: for every override record R and every   *)
(* live handler, applying R to the result of applying R changes nothing    *)
(* (same name, alias set, tier, number of permission filters); and a full  *)
(* apply that follows a full apply leaves the whole registry as it is.     *)
(***************************************************************************)
SomeRecords ==
    { p @@ n @@ a :
        p \in {EmptyDict, [permission |-> "admin"], [permission |-> "member"]},
        n \in {EmptyDict, [name |-> "c"]},
        a \in {EmptyDict, [aliases |-> <<>>], [aliases |-> <<"y", "x">>]} }

C2_Idempotent ==
    /\ \A i \in 1..Len(star_handlers_registry) : \A R \in SomeRecords :
          LET once == ApplyRecord(star_handlers_registry[i].event_filters, R)
          IN ApplyRecord(once, R) = once
    /\ last.op \in {"apply", "initialize"} /\ auto_apply_on_load =>
          ApplyConfigToHandlers(alter_cmd, star_handlers_registry, star_map)
             = star_handlers_registry

\* an apply has just appended a permission filter to h1, which had none
C2_Witness ==
    /\ last.op = "apply"
    /\ "h1" \in last.fixed
    /\ PlaceOf("m1", "h1") # 0
    /\ NumPermissionFilters(star_handlers_registry[PlaceOf("m1", "h1")].event_filters) = 1

(***************************************************************************)
(* C4  Precedence in get_plugin_commands.  For every listed handler and    *)
(* each of name, permission, aliases: the reply carries the override when  *)
(* the record sets the field, and the live value when it does not.         *)
(* As claimed (C4_AsClaimed), the live permission of a handler without a   *)
(* permission filter reads "member"; the code replies the marker "未设置"  *)
(* (PermUnset) there, which is what C4_Precedence states.                  *)
(***************************************************************************)
Infos(plugin_name) ==
    LET reply == GetPluginCommands(alter_cmd, star_handlers_registry, star_map,
                                   plugin_name)
    IN reply.commands \o reply.groups

PrecedenceOf(info, event_filters, cmd_cfg, no_filter_reads) ==
    /\ info.name = IF "name" \in DOMAIN cmd_cfg THEN cmd_cfg["name"]
                   ELSE LiveName(event_filters)
    /\ info.permission =
          IF "permission" \in DOMAIN cmd_cfg THEN cmd_cfg["permission"]
          ELSE IF LiveTier(event_filters) = "none" THEN no_filter_reads
          ELSE LiveTier(event_filters)
    /\ IF "aliases" \in DOMAIN cmd_cfg THEN info.aliases = cmd_cfg["aliases"]
       ELSE /\ Range(info.aliases) = LiveAliases(event_filters)
            /\ Len(info.aliases) = Cardinality(LiveAliases(event_filters))

PrecedenceHolds(no_filter_reads) ==
    \A p \in {"p1", "p2"} :
        LET infos == Infos(p)
        IN /\ Len(infos) = Cardinality({i \in SnapshotHandlers : PluginOf(i) = p})
           /\ \A k \in 1..Len(infos) :
                 LET i == PlaceOf(ModuleOf(p), infos[k].handler)
                 IN /\ i \in SnapshotHandlers
                    /\ PrecedenceOf(infos[k], star_handlers_registry[i].event_filters,
                                    RecordAt(i), no_filter_reads)

C3_OneFilterLastTier ==
    last.op \in SetPermissionOps /\ last.res = "ok" /\ last.zero =>
        LET f == star_handlers_registry[PlaceOf(ModuleOf(last.plugin), last.hid)].event_filters
        IN /\ NumPermissionFilters(f) = 1
           /\ LiveTier(f) = last.tier

\* the MaxRun-th consecutive call on h1, which began without a permission filter
C3_Witness ==
    /\ last.op = "svc_set_command_permission" /\ last.res = "ok"
    /\ last.hid = "h1" /\ last.zero /\ last.run = MaxRun
    /\ last.tier = "member"

(***************************************************************************)
(* C6  Batch completeness: a successful set_plugin_permission (service or  *)
(* chat) on a plugin with k snapshotted handlers replies k applied of k,   *)
(* and then each of the k handlers has a permission filter with the tier   *)
(* and a persisted permission equal to the tier.                           *)
(***************************************************************************)
BatchOps == {"svc_set_plugin_permission", "chat_batch_set_plugin"}

C6_BatchComplete ==
    last.op \in BatchOps /\ last.res = "ok" =>
        LET hs == {i \in SnapshotHandlers : PluginOf(i) = last.plugin}
        IN /\ last.counts = <<Cardinality(hs), Cardinality(hs)>>
           /\ \A i \in hs :
                 /\ NumPermissionFilters(star_handlers_registry[i].event_filters) >= 1
                 /\ LiveTier(star_handlers_registry[i].event_filters) = last.tier
                 /\ "permission" \in DOMAIN RecordAt(i)
                 /\ RecordAt(i)["permission"] = last.tier

\* the service has just set both handlers of p1 to member
C6_Witness ==
    /\ last.op = "svc_set_plugin_permission" /\ last.res = "ok"
    /\ last.plugin = "p1" /\ last.tier = "member" /\ last.counts = <<2, 2>>

(***************************************************************************)
(* C7  Unknown plugin.  For a plugin name that is not in the live          *)
(* snapshot: get_plugin_commands replies NotFound; no form of              *)
(* set_plugin_permission changes the override map or a live filter.  The   *)
(* chat helper _batch_set_plugin_permission returns (0, 0); the service's  *)
(* set_plugin_permission and the chat command reply a not-found failure    *)
(* that carries no counts.  As claimed (C7_AsClaimed), the service's reply *)
(* would carry zero applied and zero total.                                *)
(***************************************************************************)
UnknownPlugin(plugin_name) ==
    plugin_name \notin DOMAIN GetAllCommandsByPlugin(star_handlers_registry, star_map)

C7_UnknownPlugin ==
    [][ UnknownPlugin(last'.plugin) =>
          /\ last'.op = "get_plugin_commands" => last'.res = "NotFound"
          /\ last'.op \in BatchOps \cup {"batch_set_plugin_permission"} =>
                /\ alter_cmd' = alter_cmd
                /\ star_handlers_registry' = star_handlers_registry
          /\ last'.op = "batch_set_plugin_permission" => last'.counts = <<0, 0>>
          /\ last'.op = "svc_set_plugin_permission" =>
                last'.res = "NotFound" /\ last'.counts = NoCounts
          /\ last'.op = "chat_batch_set_plugin" /\ ValidTier(last'.tier) =>
                last'.res = "NotFound" /\ last'.counts = NoCounts
      ]_vars

C7_AsClaimed ==
    last.op = "svc_set_plugin_permission" /\ UnknownPlugin(last.plugin) =>
        last.counts = <<0, 0>>

\* the service was asked for p1 while p1 is unloaded and has persisted records
C7_Witness ==
    /\ last.op = "svc_set_plugin_permission" /\ last.plugin = "p1"
    /\ last.tier = "admin" /\ last.res = "NotFound"
    /\ "m1" \notin DOMAIN star_map
    /\ "p1" \in DOMAIN alter_cmd

(***************************************************************************)
(* C8  Validation before mutation: a set_plugin_permission or              *)
(* set_command_permission request of the service, the chat commands or the *)
(* web API whose tier is neither "admin" nor "member" is rejected, and the *)
(* override map and every live filter are as before the request.           *)
(***************************************************************************)
PermissionEntryPoints ==
    {"svc_set_command_permission", "svc_set_plugin_permission", "chat_set_command",
     "chat_batch_set_plugin", "api_set_command_permission", "api_set_plugin_permission"}

C8_ValidationFirst ==
    [][ last'.op \in PermissionEntryPoints /\ ~ValidTier(last'.tier) =>
          /\ last'.res \in {"InvalidArgument", "NotFound", "Usage"}
          /\ alter_cmd' = alter_cmd
          /\ star_handlers_registry' = star_handlers_registry
      ]_vars

\* the service has just rejected the tier "root" for the registered handler h1 of p1
C8_Witness ==
    /\ last.op = "svc_set_command_permission" /\ last.tier = "root"
    /\ last.plugin = "p1" /\ last.target = "h1" /\ last.res = "InvalidArgument"
    /\ PlaceOf("m1", "h1") \in SnapshotHandlers

(***************************************************************************)
(* C5  Alias round-trip: right after a successful set_command_aliases(p,   *)
(* h, L) the reply of get_plugin_commands(p) lists h with aliases equal to *)
(* L, order and repetitions included; and as long as the record of a       *)
(* listed handler sets aliases (all alias overrides of SpecAlias come from *)
(* set_command_aliases) the reply carries that list, the empty one         *)
(* included, whatever alias set the live filter carries after a reload.    *)
(***************************************************************************)
AliasesReported(plugin_name, handler_name) ==
    LET infos == Infos(plugin_name)
        hits == {k \in 1..Len(infos) : infos[k].handler = handler_name}
    IN IF hits = {} THEN << "not listed" >>
       ELSE infos[CHOOSE k \in hits : TRUE].aliases

C5_AliasRoundTrip ==
    /\ last.op = "svc_set_command_aliases" /\ last.res = "ok" =>
          AliasesReported(last.plugin, last.hid) = last.aliases
    /\ \A i \in SnapshotHandlers :
          "aliases" \in DOMAIN RecordAt(i) =>
              AliasesReported(PluginOf(i), star_handlers_registry[i].handler_name)
                 = RecordAt(i)["aliases"]

\* the query has just answered for p1 while h2, reloaded since its aliases were
\* set to the empty list, carries the alias of the plugin's source again
C5_Witness ==
    /\ last.op = "get_plugin_commands" /\ last.plugin = "p1" /\ last.res = "ok"
    /\ Reloaded
    /\ "aliases" \in DOMAIN RecordOf("p1", "h2")
    /\ RecordOf("p1", "h2")["aliases"] = <<>>
    /\ LiveAliases(star_handlers_registry[PlaceOf("m1", "h2")].event_filters) = {"x"}

(***************************************************************************)
(* C10  Lookup by live name.  A chat command that takes a command name     *)
(* (set command, name set, alias add/remove/list) and gets past its usage  *)
(* and plugin checks resolves the name to the first handler of the         *)
(* plugin's snapshot, in registration order, whose live name it is, and    *)
(* when no handler bears it replies command-not-found and changes nothing. *)
(* After a successful rename of handler h from old to new: the live name   *)
(* of h is new; the name old no longer resolves to h unless new = old; the *)
(* name new resolves to h unless a handler registered before h bears new.  *)
(* As claimed (C10_AsClaimed), after a rename from old to a different name *)
(* new, old would resolve to nothing and new to h.                         *)
(***************************************************************************)
ChatByNameOps ==
    {"chat_set_command", "chat_set_command_name", "chat_add_alias",
     "chat_remove_alias", "chat_list_aliases"}

\* the places in registry of the plugin's command handlers whose live name is name
Bearing(registry, smap, plugin_name, name) ==
    { i \in 1..Len(registry) :
         /\ Resolved(smap, registry[i])
         /\ smap[registry[i].module].name = plugin_name
         /\ FirstCommandFilter(registry[i].event_filters) # 0
         /\ LiveName(registry[i].event_filters) = name }

FirstBearing(registry, smap, plugin_name, name) ==
    LET hits == Bearing(registry, smap, plugin_name, name)
    IN IF hits = {} THEN 0 ELSE CHOOSE i \in hits : \A j \in hits : i <= j

Bearer(registry, smap, plugin_name, name) ==
    IF FirstBearing(registry, smap, plugin_name, name) = 0 THEN ""
    ELSE registry[FirstBearing(registry, smap, plugin_name, name)].handler_name

C10_LookupByLiveName ==
    [][ /\ last'.op \in ChatByNameOps
        /\ last'.res \notin {"Usage", "InvalidArgument"}
        /\ ~UnknownPlugin(last'.plugin)
        => LET i == FirstBearing(star_handlers_registry, star_map,
                                 last'.plugin, last'.target)
           IN /\ i = 0 =>
                    /\ last'.res = "NoCommand"
                    /\ alter_cmd' = alter_cmd
                    /\ star_handlers_registry' = star_handlers_registry
              /\ i # 0 =>
                    /\ last'.res # "NoCommand"
                    /\ last'.hid = star_handlers_registry[i].handler_name
              /\ last'.op = "chat_set_command_name" /\ last'.res = "ok" =>
                    /\ LiveName(star_handlers_registry'[i].event_filters) = last'.name
                    /\ last'.target # last'.name =>
                          Bearer(star_handlers_registry', star_map',
                                 last'.plugin, last'.target) # last'.hid
                    /\ (\A j \in Bearing(star_handlers_registry, star_map,
                                         last'.plugin, last'.name) : j >= i) =>
                          Bearer(star_handlers_registry', star_map',
                                 last'.plugin, last'.name) = last'.hid
      ]_vars

C10_AsClaimed ==
    last.op = "chat_set_command_name" /\ last.res = "ok" /\ last.target # last.name =>
        /\ ChatLookup(star_handlers_registry, star_map, last.plugin, last.target, "-").res
              = "NoCommand"
        /\ LET found == ChatLookup(star_handlers_registry, star_map, last.plugin,
                                   last.name, "-")
           IN /\ found.res = "ok"
              /\ star_handlers_registry[found.place].handler_name = last.hid

\* h1, whose record says "c" and whose reloaded filter says "a", has just been
\* renamed to "b" by its live name "a"
C10_Witness ==
    /\ last.op = "chat_set_command_name" /\ last.res = "ok"
    /\ last.target = "a" /\ last.name = "b" /\ last.hid = "h1"
    /\ Reloaded
    /\ alter_cmd["p1"]["h1"]["name"] = "b"

(***************************************************************************)
(* C9  Convergence.  With auto_apply_on_load set, once the reloads and     *)
(* the requests have stopped, from some time on and forever every command  *)
(* handler of an activated plugin carries each field its override record   *)
(* sets, and the default of the plugin's source in each field the record   *)
(* does not set (C9_AsClaimed).  What the code guarantees is C9_Converges: *)
(* the set fields become live, and the unset ones are the defaults when no *)
(* two requests overlapped; after overlapping requests the patch of the    *)
(* request whose map was overwritten stays on the live filter.             *)
(***************************************************************************)
\* the filters the plugin's source gives the handler at place i
DefaultFilters(i) ==
    LET source == PluginSource(star_handlers_registry[i].module)
        k == CHOOSE j \in 1..Len(source) :
                 source[j].handler_name = star_handlers_registry[i].handler_name
    IN source[k].event_filters

\* every field the record leaves unset is as in the plugin's source
KeepsDefaults(event_filters, cmd_cfg, default_filters) ==
    /\ "name" \notin DOMAIN cmd_cfg => LiveName(event_filters) = LiveName(default_filters)
    /\ "aliases" \notin DOMAIN cmd_cfg =>
          LiveAliases(event_filters) = LiveAliases(default_filters)
    /\ "permission" \notin DOMAIN cmd_cfg =>
          /\ NumPermissionFilters(event_filters) = NumPermissionFilters(default_filters)
          /\ LiveTier(event_filters) = LiveTier(default_filters)

OverridesLive ==
    \A i \in SnapshotHandlers :
        Reflects(star_handlers_registry[i].event_filters, RecordAt(i))

DefaultsLive ==
    \A i \in SnapshotHandlers :
        KeepsDefaults(star_handlers_registry[i].event_filters, RecordAt(i),
                      DefaultFilters(i))

C9_Converges == <>[](OverridesLive /\ (~overlapped => DefaultsLive))

C9_AsClaimed == <>[](OverridesLive /\ DefaultsLive)

(***************************************************************************)
(* C11  Patch safety under concurrent callers: when two single-target      *)
(* requests that patch different fields of the record of one handler (the  *)
(* tier and the name of h1 of p1) have overlapped and both have completed, *)
(* the persisted record carries both new values.                           *)
(***************************************************************************)
BothCompleted ==
    /\ overlapped
    /\ \A c \in Callers : calls[c].pc = "idle"

C11_AsClaimed ==
    BothCompleted =>
        /\ Get(RecordOf("p1", "h1"), "permission", "") = "admin"
        /\ Get(RecordOf("p1", "h1"), "name", "") = "c"

(***************************************************************************)
(* C12  Batch atomicity: while a set_plugin_permission is in flight, the   *)
(* persisted map (what any other task reads at a suspension point) has the *)
(* new permission either on every snapshotted handler of the plugin or on  *)
(* none that did not carry it when the call began; and a call writes the   *)
(* store at most once.                                                     *)
(***************************************************************************)
\* the handler names of the batch's snapshot whose record in cfg carries the new tier
Carrying(cfg) ==
    { h \in { star_handlers_registry[batch.entries[k].idx].handler_name :
                 k \in 1..Len(batch.entries) } :
         Get(Get(Get(cfg, batch.plugin, EmptyDict), h, EmptyDict), "permission", "")
            = batch.permission }

C12_AsClaimed ==
    /\ batch.writes <= 1
    /\ batch.pc # "idle" =>
          \/ Carrying(alter_cmd) = Carrying(batch.before)
          \/ Cardinality(Carrying(alter_cmd)) = Len(batch.entries)

(***************************************************************************)
(* C13  Store-before-live: in every reachable state, a tier or a name that *)
(* a live filter carries and that is not the default of the plugin's       *)
(* source (so a service call or an apply of the store put it there) is the *)
(* value the persisted record holds.                                       *)
(***************************************************************************)
StoreCovers(event_filters, cmd_cfg, default_filters) ==
    /\ LiveTier(event_filters) # LiveTier(default_filters) =>
          Get(cmd_cfg, "permission", "") = LiveTier(event_filters)
    /\ LiveName(event_filters) # LiveName(default_filters) =>
          Get(cmd_cfg, "name", "") = LiveName(event_filters)

C13_AsClaimed ==
    \A i \in 1..Len(star_handlers_registry) :
        star_handlers_registry[i].module \in DOMAIN star_map =>
            StoreCovers(star_handlers_registry[i].event_filters, RecordAt(i),
                        DefaultFilters(i))

(***************************************************************************)
(* C14  Deactivated plugins are invisible: no step changes a live filter   *)
(* of a handler whose plugin is unresolved or not activated when the step  *)
(* is taken, a step of a call that was suspended on the store while the    *)
(* plugin was switched off included.                                       *)
(***************************************************************************)
C14_AsClaimed ==
    [][ \A i \in DOMAIN star_handlers_registry :
           /\ i \in DOMAIN star_handlers_registry'
           /\ ~Resolved(star_map', star_handlers_registry[i])
           => star_handlers_registry'[i] = star_handlers_registry[i]
      ]_vars

(***************************************************************************)
(* C15  Every perm subcommand requires administrator privilege in every    *)
(* reachable state: after any permission overrides, those aimed at this    *)
(* plugin's own handlers included, and any reconciliation applies, the     *)
(* tier of each registered perm subcommand handler is admin.               *)
(***************************************************************************)
\* the places of the perm subcommand handlers (those registered with a permission filter)
OwnSubcommands ==
    { i \in 1..Len(star_handlers_registry) :
         /\ star_handlers_registry[i].module = OwnModule
         /\ LiveTier(DefaultFilters(i)) = "admin" }

C15_AsClaimed ==
    \A i \in OwnSubcommands : LiveTier(star_handlers_registry[i].event_filters) = "admin"

(***************************************************************************)
(* C16  Untouched original name: every entry of a get_plugin_commands      *)
(* reply carries as original_name the name the plugin's source gives the   *)
(* handler, whatever renames and applies came before, and as name the      *)
(* override when the record sets one.                                      *)
(***************************************************************************)
C16_AsClaimed ==
    last.op = "get_plugin_commands" /\ last.res = "ok" =>
        \A k \in 1..Len(Infos(last.plugin)) :
            LET info == Infos(last.plugin)[k]
                i == PlaceOf(ModuleOf(last.plugin), info.handler)
            IN /\ info.original_name = LiveName(DefaultFilters(i))
               /\ "name" \in DOMAIN RecordAt(i) => info.name = RecordAt(i)["name"]

(***************************************************************************)
(* C17  Alias normalization: in every reachable state every "aliases"      *)
(* value of the persisted map is a list in which no alias occurs twice.    *)
(***************************************************************************)
NoDuplicates(seq) == \A a, b \in 1..Len(seq) : seq[a] = seq[b] => a = b

C17_AsClaimed ==
    \A p \in DOMAIN alter_cmd : \A h \in DOMAIN alter_cmd[p] :
        "aliases" \in DOMAIN alter_cmd[p][h] => NoDuplicates(alter_cmd[p][h]["aliases"])

(***************************************************************************)
(* C18  Invalid alias arguments: a set-aliases request of the web API      *)
(* whose aliases value is not a list, or is a list that holds an empty     *)
(* string, is rejected, and the persisted map and every live filter are as *)
(* before the request.                                                     *)
(***************************************************************************)
C18_AsClaimed ==
    [][ /\ last'.op = "api_set_command_aliases"
        /\ ~last'.is_list \/ Contains(last'.aliases, "")
        => /\ last'.res \in {"InvalidArgument", "NotFound", "NoHandler"}
           /\ alter_cmd' = alter_cmd
           /\ star_handlers_registry' = star_handlers_registry
      ]_vars

(***************************************************************************)
(* C19  Alias add and alias remove.  The rules of the two chat commands,   *)
(* over the handler's current alias list (the stored list, or when that is *)
(* empty a listing of the live alias set).                                 *)
(***************************************************************************)
StoredAliasesOf(cfg, plugin_name, handler_name) ==
    IF /\ plugin_name \in DOMAIN cfg
       /\ handler_name \in DOMAIN cfg[plugin_name]
       /\ "aliases" \in DOMAIN cfg[plugin_name][handler_name]
    THEN cfg[plugin_name][handler_name]["aliases"] ELSE <<>>

LiveAliasesOf(registry, plugin_name, handler_name) ==
    LET i == CHOOSE k \in 1..Len(registry) :
                 /\ registry[k].module = ModuleOf(plugin_name)
                 /\ registry[k].handler_name = handler_name
    IN LiveAliases(registry[i].event_filters)

AliasCommandReached(op) ==
    /\ last'.op = op
    /\ last'.res \notin {"Usage", "NotFound", "NoCommand"}

\* the list the command worked on is the handler's current alias list
CurrentListTaken ==
    LET stored == StoredAliasesOf(alter_cmd, last'.plugin, last'.hid)
    IN IF stored # <<>> THEN last'.aliases = stored
       ELSE /\ Range(last'.aliases) = LiveAliasesOf(star_handlers_registry, last'.plugin, last'.hid)
            /\ NoDuplicates(last'.aliases)

NothingMutated ==
    /\ alter_cmd' = alter_cmd
    /\ star_handlers_registry' = star_handlers_registry

\* add of a listed alias is rejected without mutation, add of a new one appends
AliasAddRule ==
    AliasCommandReached("chat_add_alias") =>
        /\ CurrentListTaken
        /\ IF Contains(last'.aliases, last'.name)
           THEN last'.res = "Exists" /\ NothingMutated
           ELSE /\ last'.res = "ok"
                /\ StoredAliasesOf(alter_cmd', last'.plugin, last'.hid)
                      = Append(last'.aliases, last'.name)
                /\ LiveAliasesOf(star_handlers_registry', last'.plugin, last'.hid)
                      = Range(last'.aliases) \cup {last'.name}

\* remove of an alias that is not listed is rejected without mutation
AliasRemoveRule ==
    AliasCommandReached("chat_remove_alias") =>
        /\ CurrentListTaken
        /\ ~Contains(last'.aliases, last'.name) =>
              last'.res = "Absent" /\ NothingMutated

\* remove(a) comes directly after the successful add(a) on the same handler
RemoveFollowsAdd ==
    /\ last.op = "chat_add_alias" /\ last.res = "ok"
    /\ AliasCommandReached("chat_remove_alias")
    /\ last'.plugin = last.plugin /\ last'.hid = last.hid /\ last'.name = last.name

\* C19 as stated: besides the three rules, add(a) then remove(a) leaves the
\* handler's live alias set as it was before the add
C19_AsClaimed ==
    [][ /\ AliasAddRule
        /\ AliasRemoveRule
        /\ RemoveFollowsAdd =>
              /\ last'.res = "ok"
              /\ LiveAliasesOf(star_handlers_registry', last'.plugin, last'.hid) = last.was
      ]_vars

\* C19 amended: besides the three rules, add(a) then remove(a) restores the
\* handler's current alias list to what it was before the add, and leaves
\* the live alias set equal to the set of that list
C19_AddRemove ==
    [][ /\ AliasAddRule
        /\ AliasRemoveRule
        /\ RemoveFollowsAdd =>
              /\ last'.res = "ok"
              /\ StoredAliasesOf(alter_cmd', last'.plugin, last'.hid) = last.aliases
              /\ LiveAliasesOf(star_handlers_registry', last'.plugin, last'.hid)
                    = Range(last.aliases)
      ]_vars

\* remove("x") has just undone add("x") on h2, which had been reloaded and not
\* yet re-applied when the add came: stored ["y"], live {"x"} before, and
\* stored ["y"], live {"y"} now
C19_Witness ==
    /\ last.op = "chat_remove_alias" /\ last.res = "ok" /\ last.run = 1
    /\ last.plugin = "p1" /\ last.hid = "h2" /\ last.name = "x"
    /\ last.aliases = <<"y", "x">>
    /\ last.was = {"x"}
    /\ StoredAliasesOf(alter_cmd, "p1", "h2") = <<"y">>
    /\ LiveAliasesOf(star_handlers_registry, "p1", "h2") = {"y"}

(***************************************************************************)
(* C20  Sorted plugin list: every reply of list_plugins, on the chat       *)
(* surface and of the service behind the web API, names the plugins in     *)
(* ascending order of their names.                                         *)
(***************************************************************************)
SortedByName(plugins) ==
    \A a, b \in 1..Len(plugins) :
        a < b => NameRank(plugins[a].name) < NameRank(plugins[b].name)

C20_AsClaimed ==
    last.op \in {"svc_get_all_plugins", "chat_list_plugins"} => SortedByName(last.plugins)

(***************************************************************************)
(* C21  Start reports success only when listening: whenever the start      *)
(* command has just announced the start, the server's started flag is set. *)
(***************************************************************************)
C21_AsClaimed ==
    last.op = "webui_start" /\ last.res = "Started" =>
        webui.server # 0 /\ webui.servers[webui.server].started

(***************************************************************************)
(* C22  Port already bound: when the port check of a start finds the port  *)
(* held by another process, the command replies that the port is taken,    *)
(* launches no server task, the start is over (no further attempt), and    *)
(* the server is not running.                                              *)
(***************************************************************************)
C22_PortTaken ==
    [][ /\ webui.start_pc = "check"
        /\ webui.port_taken
        /\ last'.op \in {"webui_start", "webui_start_task"}
        => /\ last'.res = "PortTaken"
           /\ webui'.servers = webui.servers
           /\ webui'.task = webui.task /\ webui'.server = webui.server
           /\ webui'.start_pc = "idle" /\ webui'.polls = 0
           /\ ~IsRunning(webui')
      ]_vars

\* the start command has just replied that the port is taken, with the port
\* held by another process and no server task ever created
C22_Witness ==
    /\ last.op = "webui_start" /\ last.res = "PortTaken"
    /\ webui.port_taken
    /\ webui.servers = <<>> /\ webui.task = 0 /\ webui.server = 0
    /\ webui.start_pc = "idle"

(***************************************************************************)
(* C23  Shutdown: a stop that is waiting has set should_exit; when stop    *)
(* returns, the server task had finished before, and afterwards the server *)
(* is not running and the task and server references are cleared; a server *)
(* task is created only while no earlier server task is alive; stop on a   *)
(* server that is not running changes nothing.                             *)
(***************************************************************************)
C23_Shutdown ==
    [][ /\ webui'.stop_pc = "wait" /\ Alive(webui', webui'.awaited) =>
              webui'.servers[webui'.awaited].should_exit
        /\ last'.op = "webui_stop" /\ last'.res = "Stopped" =>
              /\ webui.servers[webui.awaited].state = "done"
              /\ ~IsRunning(webui')
              /\ webui'.task = 0 /\ webui'.server = 0
        /\ last'.op = "webui_start_task" => ~Alive(webui, webui.task)
        /\ last'.op = "webui_stop" /\ last'.res = "NotRunning" => webui' = webui
      ]_vars

\* a start has just created the second server task, after a stop that had
\* awaited the end of the first one and cleared the references
C23_Witness ==
    /\ last.op = "webui_start_task"
    /\ Len(webui.servers) = 2
    /\ webui.servers[1].state = "done" /\ webui.servers[1].should_exit
    /\ Alive(webui, 2) /\ webui.task = 2
    /\ webui.stop_pc = "idle"

(***************************************************************************)
(* C24  Failure policy: a tick in which an exception is raised, in the     *)
(* signature scan or inside the apply, leaves the loop alive and in its    *)
(* backoff sleep.                                                          *)
(***************************************************************************)
C24_AsClaimed ==
    last.op \in {"wake_fails", "apply_fails"} => mon_pc = "backoff"

(***************************************************************************)
(* C25  Cancellation: whenever terminate() cancels the loop, at whichever  *)
(* await it is suspended, the task ends by returning from the loop.        *)
(***************************************************************************)
C25_AsClaimed ==
    /\ last.op = "terminate"
    /\ last.target \in {"sleep", "grace", "apply", "backoff"}
    => mon_pc = "done"

(***************************************************************************)
(* C26  At most one permission filter: in every reachable state every      *)
(* handler of the registry has at most one permission filter, and a step   *)
(* that leaves the registry's handlers in their places adds a permission   *)
(* filter only to a handler that had none.                                 *)
(***************************************************************************)
SamePlaces(before, after) ==
    /\ Len(before) = Len(after)
    /\ \A i \in 1..Len(before) :
          /\ before[i].module = after[i].module
          /\ before[i].handler_name = after[i].handler_name

C26_OneFilter ==
    /\ [](\A i \in 1..Len(star_handlers_registry) :
             NumPermissionFilters(star_handlers_registry[i].event_filters) <= 1)
    /\ [][ SamePlaces(star_handlers_registry, star_handlers_registry') =>
             \A i \in 1..Len(star_handlers_registry) :
                NumPermissionFilters(star_handlers_registry'[i].event_filters)
                   > NumPermissionFilters(star_handlers_registry[i].event_filters)
                => NumPermissionFilters(star_handlers_registry[i].event_filters) = 0
         ]_vars

\* a web request has just written the tier of h1 after a reload of p1: h1,
\* which its plugin registers without a permission filter, has exactly one
C26_Witness ==
    /\ last.op = "call_put" /\ last.hid = "h1"
    /\ Reloaded
    /\ "permission" \in DOMAIN RecordOf("p1", "h1")
    /\ NumPermissionFilters(star_handlers_registry[PlaceOf("m1", "h1")].event_filters) = 1
    /\ NumPermissionFilters(star_handlers_registry[PlaceOf("m1", "h2")].event_filters) = 1

(***************************************************************************)
(* C27  Churn-triggered apply.  A tick that finds the signature set of the *)
(* activated plugins different from the recorded one goes into the grace   *)
(* sleep, whatever the periodic timer reads, and then into a full apply;   *)
(* the apply rewrites every handler from the override map and replaces the *)
(* recorded set by the set computed at the tick's start; a churn tick at   *)
(* which the periodic apply is not due leaves the periodic timer running.  *)
(***************************************************************************)
ElapsedAtWake == Min(since_full_apply + check_interval, apply_interval)

ChurnSeen ==
    /\ mon_pc = "sleep" /\ last'.op = "wake"
    /\ HandlerSignatures(star_handlers_registry, star_map) # last_handler_signatures

C27_ChurnApply ==
    [][ /\ ChurnSeen =>
              /\ mon_pc' = "grace"
              /\ current_handler_signatures'
                    = HandlerSignatures(star_handlers_registry, star_map)
              /\ last_handler_signatures' = last_handler_signatures
              /\ since_full_apply' = ElapsedAtWake
        /\ last'.op = "grace" =>
              /\ mon_pc = "grace" /\ mon_pc' = "apply"
              /\ tick_elapsed < apply_interval =>
                    since_full_apply' = Min(since_full_apply + grace_interval,
                                            apply_interval)
              /\ UNCHANGED <<last_handler_signatures, current_handler_signatures>>
        /\ last'.op = "apply" =>
              /\ star_handlers_registry'
                    = ApplyConfigToHandlers(alter_cmd, star_handlers_registry, star_map)
              /\ last_handler_signatures' = current_handler_signatures
              /\ since_full_apply' = since_full_apply
              /\ mon_pc' = "sleep"
      ]_vars

\* the apply of a churn tick at which the periodic apply was not due has just
\* rewritten the reloaded h1 and h2: the timer has not been reset and the
\* recorded set is the current one
C27_Witness ==
    /\ last.op = "apply"
    /\ Reloaded
    /\ {"h1", "h2"} \subseteq last.fixed
    /\ since_full_apply > grace_interval /\ since_full_apply < apply_interval
    /\ last_handler_signatures = HandlerSignatures(star_handlers_registry, star_map)

(***************************************************************************)
(* C28  Periodic full apply.  A tick at which apply_interval has elapsed   *)
(* since the last periodic apply runs a full apply, directly when the      *)
(* signature set is unchanged and after the grace sleep when it changed,   *)
(* and restarts the timer; right after the apply of such a tick every      *)
(* handler carries its override record, also one reloaded with the same    *)
(* signatures; a tick runs its apply once: the loop enters the apply only  *)
(* from its wake or its grace sleep and leaves it for the next sleep.      *)
(***************************************************************************)
C28_PeriodicApply ==
    [][ /\ ( /\ mon_pc = "sleep" /\ last'.op = "wake"
             /\ ElapsedAtWake >= apply_interval ) =>
              IF HandlerSignatures(star_handlers_registry, star_map)
                    = last_handler_signatures
              THEN mon_pc' = "apply" /\ since_full_apply' = 0
              ELSE mon_pc' = "grace" /\ tick_elapsed' >= apply_interval
        /\ last'.op = "grace" /\ tick_elapsed >= apply_interval =>
              mon_pc' = "apply" /\ since_full_apply' = grace_interval
        /\ last'.op = "apply" =>
              /\ mon_pc = "apply" /\ mon_pc' = "sleep"
              /\ \A i \in 1..Len(star_handlers_registry') :
                    Resolved(star_map, star_handlers_registry'[i])
                    /\ FirstCommandFilter(star_handlers_registry'[i].event_filters) # 0
                    => Reflects(star_handlers_registry'[i].event_filters,
                                Get(Get(alter_cmd, star_map[star_handlers_registry'[i].module].name,
                                        EmptyDict),
                                    star_handlers_registry'[i].handler_name, EmptyDict))
        /\ mon_pc' = "apply" /\ mon_pc # "apply" => last'.op \in {"wake", "grace"}
      ]_vars

\* a periodic apply with an unchanged signature set has just healed h1 and
\* h2, reloaded between two ticks with the signatures they had
C28_Witness ==
    /\ last.op = "apply"
    /\ since_full_apply = 0
    /\ Reloaded
    /\ {"h1", "h2"} \subseteq last.fixed
    /\ last_handler_signatures = HandlerSignatures(star_handlers_registry, star_map)

(***************************************************************************)
(* C29  Applier frame.  A full apply (of initialize or of a tick) leaves   *)
(* the filters of a handler that has no record, an empty record or no      *)
(* command filter as they are; on the other handlers it leaves the live    *)
(* name when the record sets no name, the live alias set when it sets no   *)
(* aliases, the permission filters when it sets no permission, and the     *)
(* cache of complete names when it sets neither name nor aliases.          *)
(***************************************************************************)
RecordFor(i) ==
    IF Resolved(star_map, star_handlers_registry[i])
    THEN Get(Get(alter_cmd, star_map[star_handlers_registry[i].module].name, EmptyDict),
             star_handlers_registry[i].handler_name, EmptyDict)
    ELSE EmptyDict

PermissionFilters(event_filters) ==
    SelectSeq(event_filters, LAMBDA f : f.kind = "permission")

CacheOf(event_filters) == event_filters[FirstCommandFilter(event_filters)].cmpl

FrameKept(before, after, cmd_cfg) ==
    IF FirstCommandFilter(before) = 0 \/ DOMAIN cmd_cfg = {} THEN after = before
    ELSE /\ "name" \notin DOMAIN cmd_cfg => LiveName(after) = LiveName(before)
         /\ "aliases" \notin DOMAIN cmd_cfg => LiveAliases(after) = LiveAliases(before)
         /\ "permission" \notin DOMAIN cmd_cfg =>
               PermissionFilters(after) = PermissionFilters(before)
         /\ DOMAIN cmd_cfg \cap {"name", "aliases"} = {} =>
               CacheOf(after) = CacheOf(before)

C29_Frame ==
    [][ last'.op \in {"apply", "initialize"} =>
           /\ Len(star_handlers_registry') = Len(star_handlers_registry)
           /\ \A i \in 1..Len(star_handlers_registry) :
                 FrameKept(star_handlers_registry[i].event_filters,
                           star_handlers_registry'[i].event_filters, RecordFor(i))
      ]_vars

\* an apply has just given h1, whose record sets the permission only, its
\* permission filter: the name is the source's and the cache is still filled
C29_Witness ==
    /\ last.op = "apply" /\ "h1" \in last.fixed
    /\ RecordOf("p1", "h1") = [permission |-> "member"]
    /\ LiveName(star_handlers_registry[PlaceOf("m1", "h1")].event_filters) = "a"
    /\ CacheOf(star_handlers_registry[PlaceOf("m1", "h1")].event_filters) = <<"a">>
    /\ "h1" \in last.cached
    /\ LiveTier(star_handlers_registry[PlaceOf("m1", "h1")].event_filters) = "member"

(***************************************************************************)
(* C30  Alias replacement.  After a full apply, the live alias set of      *)
(* every snapshotted handler whose record sets aliases is exactly the set  *)
(* of the record's list, the empty set for the empty list; and a           *)
(* successful set_command_aliases of the service leaves the handler's live *)
(* alias set equal to the set of the list it was given.                    *)
(***************************************************************************)
C30_AliasReplaced ==
    [][ /\ last'.op \in {"apply", "initialize"} =>
              \A i \in 1..Len(star_handlers_registry) :
                 /\ FirstCommandFilter(star_handlers_registry[i].event_filters) # 0
                 /\ "aliases" \in DOMAIN RecordFor(i)
                 => LiveAliases(star_handlers_registry'[i].event_filters)
                       = Range(RecordFor(i)["aliases"])
        /\ last'.op = "svc_set_command_aliases" /\ last'.res = "ok" =>
              LiveAliasesOf(star_handlers_registry', last'.plugin, last'.hid)
                 = Range(last'.aliases)
      ]_vars

\* an apply has just emptied the alias set of the reloaded h2, whose source
\* gives it the alias x and whose record sets the empty list
C30_Witness ==
    /\ last.op = "apply" /\ "h2" \in last.fixed
    /\ Reloaded
    /\ "aliases" \in DOMAIN RecordOf("p1", "h2")
    /\ RecordOf("p1", "h2")["aliases"] = <<>>
    /\ LiveAliases(star_handlers_registry[PlaceOf("m1", "h2")].event_filters) = {}

(***************************************************************************)
(* C31  Derived-cache freshness.  In every reachable state the cache of    *)
(* complete command names of every command or group filter is either       *)
(* empty or the value computed from the filter's current name and alias    *)
(* set: each writer of a name or an alias set empties it in the step that  *)
(* writes.                                                                 *)
(***************************************************************************)
FreshCache(event_filters) ==
    \A k \in 1..Len(event_filters) :
        event_filters[k].kind \in {"command", "command_group"} =>
            \/ event_filters[k].cmpl = None
            \/ event_filters[k].cmpl = CompleteNames(event_filters[k])

C31_FreshCache ==
    \A i \in 1..Len(star_handlers_registry) :
        FreshCache(star_handlers_registry[i].event_filters)

\* the service has just renamed h1, whose cache the host had filled: the
\* cache is empty again
C31_Witness ==
    /\ last.op = "svc_set_command_name" /\ last.res = "ok"
    /\ "h1" \in last.cached
    /\ LiveName(star_handlers_registry[PlaceOf("m1", "h1")].event_filters) = "c"
    /\ CacheOf(star_handlers_registry[PlaceOf("m1", "h1")].event_filters) = None

(***************************************************************************)
(* C32  Patch frame.  A successful single-target mutation (set permission, *)
(* set name, set aliases, alias add, alias remove; service or chat) that   *)
(* runs with no other writer between its read and its write leaves in the  *)
(* override map the record of its (plugin, handler) with the one field it  *)
(* sets holding the new value and every other field as it was, and leaves  *)
(* every other record of the plugin and of the other plugins as it was.    *)
(***************************************************************************)
PatchOps ==
    {"svc_set_command_permission", "chat_set_command", "svc_set_command_name",
     "chat_set_command_name", "svc_set_command_aliases", "chat_add_alias",
     "chat_remove_alias"}

PatchedField(op) ==
    IF op \in {"svc_set_command_permission", "chat_set_command"} THEN "permission"
    ELSE IF op \in {"svc_set_command_name", "chat_set_command_name"} THEN "name"
    ELSE "aliases"

PatchedValue(req) ==
    IF PatchedField(req.op) = "permission" THEN req.tier
    ELSE IF PatchedField(req.op) = "name" THEN req.name
    ELSE IF req.op = "svc_set_command_aliases" THEN req.aliases
    ELSE IF req.op = "chat_add_alias" THEN req.aliases \o <<req.name>>
    ELSE RemoveFirst(req.aliases, req.name)

RecordIn(cfg, plugin_name, handler_name) ==
    Get(Get(cfg, plugin_name, EmptyDict), handler_name, EmptyDict)

OneFieldPatched(before, after, req) ==
    /\ DOMAIN after \subseteq DOMAIN before \cup {req.plugin}
    /\ DOMAIN before \subseteq DOMAIN after
    /\ \A plugin_name \in DOMAIN after :
          /\ DOMAIN Get(before, plugin_name, EmptyDict) \subseteq DOMAIN after[plugin_name]
          /\ \A handler_name \in DOMAIN after[plugin_name] :
                LET old == RecordIn(before, plugin_name, handler_name)
                    new == after[plugin_name][handler_name]
                IN IF plugin_name = req.plugin /\ handler_name = req.hid
                   THEN /\ DOMAIN new = DOMAIN old \cup {PatchedField(req.op)}
                        /\ new[PatchedField(req.op)] = PatchedValue(req)
                        /\ \A f \in DOMAIN old \ {PatchedField(req.op)} : new[f] = old[f]
                   ELSE /\ handler_name \in DOMAIN Get(before, plugin_name, EmptyDict)
                        /\ new = old

C32_PatchFrame ==
    [][ last'.op \in PatchOps /\ last'.res = "ok" =>
           OneFieldPatched(alter_cmd, alter_cmd', last') ]_vars

\* the service has just set the permission of h1, whose record held a name
\* and aliases too, beside the records of h2 and of p2's h3
C32_Witness ==
    /\ last.op = "svc_set_command_permission" /\ last.res = "ok"
    /\ last.hid = "h1" /\ last.tier = "member"
    /\ RecordIn(alter_cmd, "p1", "h1") =
          [name |-> "c", permission |-> "member", aliases |-> <<"y", "x">>]
    /\ RecordIn(alter_cmd, "p1", "h2") = [permission |-> "member", aliases |-> <<>>]
    /\ RecordIn(alter_cmd, "p2", "h3") = [permission |-> "admin", aliases |-> <<"x">>]

(***************************************************************************)
(* C33  Re-resolution before mutation.  A service mutation updates the     *)
(* filters of a handler object only if that object is in the registry at   *)
(* the moment of the update: a call whose handler was replaced by a reload *)
(* while it was suspended does not write into the object it found before.  *)
(***************************************************************************)
C33_AsClaimed == last.op = "call_put" => ~last.stale

(***************************************************************************)
(* C34  The two facades are equivalent on mutations.  Run one after the    *)
(* other, each successful chat mutation leaves the override map and the    *)
(* live filters that the service's mutation of the same handler with the   *)
(* same value leaves from the same state, and each successful service      *)
(* mutation leaves what the chat helper of the same handler and value      *)
(* leaves; a mutation that either facade rejects changes neither the map   *)
(* nor the filters.  So equal states stay equal along any sequence.        *)
(***************************************************************************)
ChatOps ==
    {"chat_set_command", "chat_batch_set_plugin", "chat_set_command_name",
     "chat_add_alias", "chat_remove_alias"}

SvcOps ==
    {"svc_set_command_permission", "svc_set_plugin_permission", "svc_set_command_name",
     "svc_set_command_aliases"}

\* what the service leaves when asked for the mutation the chat command req made
ServiceTwin(cfg, registry, smap, req) ==
    IF req.op = "chat_set_command"
    THEN SvcSetCommandPermissionOutcome(cfg, registry, smap, req.plugin, req.hid, req.tier)
    ELSE IF req.op = "chat_batch_set_plugin"
    THEN SvcSetPluginPermissionOutcome(cfg, registry, smap, req.plugin, req.tier)
    ELSE IF req.op = "chat_set_command_name"
    THEN SvcSetCommandNameOutcome(cfg, registry, smap, req.plugin, req.hid, req.name)
    ELSE SvcSetCommandAliasesOutcome(cfg, registry, smap, req.plugin, req.hid,
                                     PatchedValue(req))

\* what the chat helpers leave when called for the mutation the service call req made
ChatTwin(cfg, registry, smap, req) ==
    LET i == PlaceOf(ModuleOf(req.plugin), req.hid)
    IN IF req.op = "svc_set_command_permission"
       THEN ChatSetCommandPermission(cfg, registry, req.plugin, req.hid, req.tier, i)
       ELSE IF req.op = "svc_set_plugin_permission"
       THEN LET out == BatchSetPluginPermission(cfg, registry, smap, req.plugin, req.tier)
            IN [cfg |-> out.cfg, registry |-> out.registry]
       ELSE IF req.op = "svc_set_command_name"
       THEN ChatSetCommandNameHelper(cfg, registry, req.plugin, req.hid, req.name, i)
       ELSE ChatSetCommandAliasesHelper(cfg, registry, req.plugin, req.hid, req.aliases, i)

ReconcileOps == {"initialize", "wake", "grace", "apply"}

C35_ReadOnly ==
    [][ /\ last'.op \in ReconcileOps => alter_cmd' = alter_cmd
        /\ alter_cmd' # alter_cmd => last'.op \in ChatOps \cup SvcOps
      ]_vars

\* an apply has just rewritten the reloaded h2 from a map that holds records
\* of p1: the map is as the service left it
C35_Witness ==
    /\ last.op = "apply" /\ "h2" \in last.fixed
    /\ Reloaded
    /\ RecordIn(alter_cmd, "p1", "h2") = [aliases |-> <<"y">>]

(***************************************************************************)
(* C36  Mutations on different plugins do not interfere.  When a           *)
(* set_command_permission on p1's h1 and a set_command_name on p2's h3     *)
(* have overlapped and both have completed, the override map holds the     *)
(* permission of the one and the name of the other.                        *)
(***************************************************************************)
C36_AsClaimed ==
    BothCompleted =>
        /\ Get(RecordIn(alter_cmd, "p1", "h1"), "permission", "") = "admin"
        /\ Get(RecordIn(alter_cmd, "p2", "h3"), "name", "") = "c"

(***************************************************************************)
(* C37  No stale re-apply.  Whenever no operation is in flight (no service *)
(* call between its first await and its return, the loop in its sleep      *)
(* between two ticks), every handler of the snapshot has, for each field   *)
(* its record sets, the live value the override map holds.                 *)
(***************************************************************************)
NothingInFlight ==
    /\ initialized
    /\ mon_pc = "sleep"
    /\ batch.pc = "idle"
    /\ \A c \in Callers : calls[c].pc = "idle"

C37_AsClaimed == NothingInFlight => OverridesLive

(***************************************************************************)
(* C38  Single web server.  Under every interleaving of start commands,    *)
(* stop commands and the server's own steps, at most one server task is    *)
(* alive at any time.                                                      *)
(***************************************************************************)
AliveServers == {id \in 1..Len(webui.servers) : Alive(webui, id)}

C38_AsClaimed == Cardinality(AliveServers) <= 1

(***************************************************************************)
(* C39  Clean termination.  Once terminate() has returned, the             *)
(* reconciliation task is not running and no web server task of this       *)
(* plugin is alive, whatever the automatic start was doing when            *)
(* terminate() was called.                                                 *)
(***************************************************************************)
C39_AsClaimed ==
    webui.terminated =>
        /\ mon_pc \notin {"sleep", "grace", "apply", "backoff"}
        /\ AliveServers = {}

====
